---------------------------- MODULE Spec2Model ----------------------------
(***************************************************************************)
(* Model of Vaflel/lesson-counter: the violation detector (domain package), *)
(* the remote group-schedule fetcher and the tabular parser of individual   *)
(* lessons (infrastructure package).                                        *)
(*                                                                          *)
(* Conventions.  A Go string is a TLA+ string; the Cyrillic literals of the *)
(* source are written in Latin transliteration because the parser accepts   *)
(* only ASCII string literals.  A time.Time that holds a calendar date is a *)
(* day number (0 is the zero time.Time); a time.Time that holds a clock     *)
(* time is its number of minutes after the midnight that starts day 0 (a    *)
(* clock time parsed alone lies on day 0).  A Go map that the code ranges    *)
(* over is iterated in an arbitrary order, chosen nondeterministically by    *)
(* the action that models the loop.  A spreadsheet cell is the sequence of   *)
(* its tokens (words, "/" and blanks) where the code splits it, and the      *)
(* record of its parts where the code matches it with regular expressions.   *)
(***************************************************************************)
EXTENDS Integers, Sequences, FiniteSets, TLC

VARIABLES
    students,     \* Validator.students
    lessons,      \* Validator.lessons
    violations,   \* the list ValidateSchedule returned
    vpc           \* "new" after NewValidator, "done" after ValidateSchedule

vvars == <<students, lessons, violations, vpc>>

VARIABLES
    gsp,          \* GroupScheduleParser: departmentName, groupName, weekStart
    gpc,          \* position of Parse: "departments", "groups", "lessons", "done"
    requests,     \* the HTTP requests Parse has issued, in order
    responses,    \* what the remote service answered to each request
    departmentID, \* Parse's local departmentID
    groupID,      \* Parse's local groupID
    lessonsData,  \* the raw records fetchLessons returned, in arrival order
    parsed        \* what Parse returned: [lessons, err], err = "" for nil

gvars == <<gsp, gpc, requests, responses, departmentID, groupID, lessonsData, parsed>>

VARIABLES
    tpc,          \* position of IndividualScheduleParser.Parse: "load", "scan", "done"
    allLessons,   \* Parse's local allLessons, the records created so far
    mergedLessons, \* Parse's local mergedLessons, as the set of its elements
    tparsed       \* what Parse returned: [lessons, err], err = "" for nil

tvars == <<tpc, allLessons, mergedLessons, tparsed>>

VARIABLES
    cacheData,    \* GroupLessonsCache.data: key -> [lessons, expiry], for the keys present
    now,          \* time.Now(), in minutes
    lastSet,      \* history: key -> [lessons, at] of the last Set of each key set so far
    got           \* history: the last call of the cache when it was a Get:
                  \* [key, lessons, ok, at]; NoCall otherwise

cvars == <<cacheData, now, lastSet, got>>

VARIABLES
    roster,       \* ProcessSchedule's students
    repoDepartments, \* LessonsRepositoryImpl.departments
    repoGroups,   \* LessonsRepositoryImpl.groups
    rlessons,     \* LessonsRepositoryImpl.lessons
    rpc,          \* position of GetLessons: "idle" (no call in progress), "cache",
                  \* "spawn", "wait"
    tasks,        \* the goroutines GetLessons has launched in this call, in launch
                  \* order: [dep, grp, pc, out, attempts, logged]
    groupLessons, \* GetLessons' local groupLessons
    individual,   \* what individualParser.Parse returned in this call
    held,         \* history: LessonsRepositoryImpl.lessons when this call began
    returned,     \* what the last call of GetLessons returned: [lessons, hit, done]
    calls,        \* history: the number of calls of GetLessons that have returned
    validated,    \* what ProcessSchedule returned: [Violations, Lessons, err, done]
    runs          \* history: the runs of ProcessSchedule that have returned, in
                  \* order: [at, hit, fetches], at the time its GetLessons returned

rvars == <<roster, repoDepartments, repoGroups, rlessons, rpc, tasks, groupLessons,
           individual, held, returned, calls, validated, runs>>

VARIABLES
    yaml,         \* the students of the file students.yaml, in file order
    storeLog      \* history: the calls of the YAMLStudentRepository, in order:
                  \* [op, name, student, before, err, found]

yvars == <<yaml, storeLog>>

VARIABLES
    isProcessing, \* Server.isProcessing
    reportReady,  \* Server.reportReady
    serverViolations, \* Server.violations
    serverLessons, \* Server.lessons
    jobs,         \* the goroutines handleCheck has started, in order:
                  \* [week, pc, result], pc "running", "returned" or "done"
    replies       \* history: the answers of the server, in order

wvars == <<isProcessing, reportReady, serverViolations, serverLessons, jobs, replies>>

vars == <<vvars, gvars, tvars, cvars, rvars, yvars, wvars>>

\* what a step of one component leaves alone: the other components
notValidator == <<gvars, tvars, cvars, rvars, yvars, wvars>>
notFetcher == <<vvars, tvars, cvars, rvars, yvars, wvars>>
notTabular == <<vvars, gvars, cvars, rvars, yvars, wvars>>
notCache == <<vvars, gvars, tvars, rvars, yvars, wvars>>
notService == <<vvars, gvars, tvars, yvars, wvars>>
notRepository == <<notService, runs>>
notStore == <<vvars, gvars, tvars, cvars, rvars, wvars>>
notServer == <<vvars, gvars, tvars, cvars, rvars, yvars>>

-----------------------------------------------------------------------------
(* Bounds of the model.                                                     *)

\* longest list of lessons in the load scenarios (6 lessons of 2 hours = 12)
MaxLoadLessons == 6
\* longest list of lessons in the gap scenarios
MaxGapLessons == 3
\* longest list of lessons in the schedule-collection scenarios
MaxBindLessons == 3
\* highest period number in the gap scenarios (slots 0 .. 2*MaxNumber-1)
MaxNumber == 4
\* most raw records in one answer of the remote service
MaxRecords == 3
\* most (period, day) cells of the spreadsheets that one Parse reads
MaxCells == 2
\* the latest time the clock reaches, in minutes
MaxTime == 61
\* most calls of GetLessons on one repository
MaxCalls == 2
\* the calls of the roster store in one behaviour
MaxOps == 4
\* the runs of ProcessSchedule in one behaviour
MaxRuns == 2
\* the requests the server answers in one behaviour
MaxRequests == 4

\* longest lesson list of the order scenarios
MaxOrderLessons == 6

-----------------------------------------------------------------------------
(* Generic helpers.                                                         *)

\* all sequences over S of length 0..n
SeqsUpTo(S, n) == UNION {[1..k -> S] : k \in 0..n}

\* all orders in which a range loop may visit the keys of a map
Orders(keys) ==
    {p \in [1..Cardinality(keys) -> keys] :
        \A i, j \in 1..Cardinality(keys) : i # j => p[i] # p[j]}

-----------------------------------------------------------------------------
(* domain: Student, Lesson, LessonTime, Violation.                          *)

\* time.Time.Format("2006-01-02") on the days the model uses
FormatDate(day) ==
    CASE day = 0 -> "0001-01-01"
      [] day = 1 -> "2025-03-10"
      [] day = 2 -> "2025-03-11"
      [] OTHER   -> "2025-03-12"

Student(name, group, department, year) ==
    [Name |-> name, Group |-> group, Department |-> department, Year |-> year]

NewLessonTime(date, number, pairHalf, hours, startTime, endTime) ==
    [Date |-> date, Number |-> number, PairHalf |-> pairHalf, Hours |-> hours,
     StartTime |-> startTime, EndTime |-> endTime]

Lesson(time, discipline, teacher, cabinet, group, student) ==
    [Time |-> time, Discipline |-> discipline, Teacher |-> teacher,
     Cabinet |-> cabinet, Group |-> group, Student |-> student]

DateString(t) == FormatDate(t.Date)

NewViolation(studentName, group, year, date, violationType, hours) ==
    [StudentName |-> studentName, Group |-> group, Year |-> year,
     Date |-> date, Type |-> violationType, Hours |-> hours]

\* "Превышение нагрузки"
LoadViolation == "Prevyshenie nagruzki"
\* "Превышение окон"
GapViolation == "Prevyshenie okon"

-----------------------------------------------------------------------------
(* domain.Validator                                                         *)

\* if totalHours > 10
LoadLimit == 10
\* maxGaps := 4
MaxGapsDefault == 4
\* if student.Year == 1 { maxGaps = 2 }
MaxGapsFirstYear == 2
\* int(^uint(0) >> 1): the largest int (its value on a 32-bit build, the
\* largest number the model checker represents; every slot is far below it)
MaxInt == 2147483647

RECURSIVE collectFrom(_, _, _)
collectFrom(all, student, i) ==
    IF i > Len(all) THEN <<>>
    ELSE LET lesson == all[i]
             rest == collectFrom(all, student, i + 1)
         IN IF lesson.Student # "" /\ lesson.Student = student.Name
            THEN <<lesson>> \o rest
            ELSE IF lesson.Student = "" /\ lesson.Group = student.Group
                 THEN <<lesson>> \o rest
                 ELSE rest

\* collectStudentSchedule without the test that a group lesson names no student
RECURSIVE collectAnyGroupFrom(_, _, _)
collectAnyGroupFrom(all, student, i) ==
    IF i > Len(all) THEN <<>>
    ELSE LET lesson == all[i]
             rest == collectAnyGroupFrom(all, student, i + 1)
         IN IF lesson.Student # "" /\ lesson.Student = student.Name
            THEN <<lesson>> \o rest
            ELSE IF lesson.Group = student.Group
                 THEN <<lesson>> \o rest
                 ELSE rest

collectStudentSchedule_anyGroup(all, student) == collectAnyGroupFrom(all, student, 1)

collectStudentSchedule(all, student) == collectFrom(all, student, 1)

\* map[string][]Lesson: date string -> that date's lessons, in input order
groupByDate(schedule) ==
    [date \in {DateString(schedule[i].Time) : i \in 1..Len(schedule)} |->
        SelectSeq(schedule, LAMBDA l : DateString(l.Time) = date)]

RECURSIVE calculateLoadFrom(_, _)
calculateLoadFrom(dayLessons, i) ==
    IF i > Len(dayLessons) THEN 0
    ELSE dayLessons[i].Time.Hours + calculateLoadFrom(dayLessons, i + 1)

calculateLoad(dayLessons) == calculateLoadFrom(dayLessons, 1)

\* the loop of calculateGaps: st = [min, max, occ] after lessons i..Len
RECURSIVE gapsLoop(_, _, _)
gapsLoop(dayLessons, i, st) ==
    IF i > Len(dayLessons) THEN st
    ELSE LET t == dayLessons[i].Time IN
         IF t.PairHalf = 0
         THEN LET slot1 == (t.Number - 1) * 2
                  slot2 == slot1 + 1
              IN gapsLoop(dayLessons, i + 1,
                     [min |-> IF slot1 < st.min THEN slot1 ELSE st.min,
                      max |-> IF slot2 > st.max THEN slot2 ELSE st.max,
                      occ |-> st.occ \cup {slot1, slot2}])
         ELSE LET slot == (t.Number - 1) * 2 + (t.PairHalf - 1)
              IN gapsLoop(dayLessons, i + 1,
                     [min |-> IF slot < st.min THEN slot ELSE st.min,
                      max |-> IF slot > st.max THEN slot ELSE st.max,
                      occ |-> st.occ \cup {slot}])

\* calculateGaps counting one occupied slot per lesson instead of the distinct
\* occupied slots
calculateGaps_perLesson(dayLessons) ==
    IF Len(dayLessons) = 0 THEN 0
    ELSE LET st == gapsLoop(dayLessons, 1, [min |-> MaxInt, max |-> -1, occ |-> {}])
         IN (st.max - st.min + 1) - Len(dayLessons)

\* calculateGaps that takes the span from the first lesson of the list to
\* the last one instead of the lowest and the highest occupied slot
calculateGaps_inputOrder(dayLessons) ==
    IF Len(dayLessons) = 0 THEN 0
    ELSE LET st == gapsLoop(dayLessons, 1, [min |-> MaxInt, max |-> -1, occ |-> {}])
             firstSlot == (dayLessons[1].Time.Number - 1) * 2
             lastSlot == (dayLessons[Len(dayLessons)].Time.Number - 1) * 2 + 1
         IN (lastSlot - firstSlot + 1) - Cardinality(st.occ)

calculateGaps(dayLessons) ==
    IF Len(dayLessons) = 0 THEN 0
    ELSE LET st == gapsLoop(dayLessons, 1, [min |-> MaxInt, max |-> -1, occ |-> {}])
             totalSlots == st.max - st.min + 1
             occupied == Cardinality(st.occ)
         IN totalSlots - occupied

\* one day's violations with the two thresholds given
dayViolations(student, dayLessons, loadFires, gapsFire) ==
    IF Len(dayLessons) = 0 THEN <<>>
    ELSE LET date == dayLessons[1].Time.Date
             totalHours == calculateLoad(dayLessons)
             gapPairs == calculateGaps(dayLessons)
         IN (IF loadFires[totalHours]
             THEN <<NewViolation(student.Name, student.Group, student.Year,
                                 date, LoadViolation, totalHours)>>
             ELSE <<>>)
            \o (IF gapsFire[gapPairs]
                THEN <<NewViolation(student.Name, student.Group, student.Year,
                                    date, GapViolation, gapPairs)>>
                ELSE <<>>)

\* validateDay with the load test written >= 10
validateDay_loadAtLimit(student, dayLessons) ==
    dayViolations(student, dayLessons,
        [h \in Int |-> h >= LoadLimit],
        [g \in Int |-> g > (IF student.Year = 1 THEN MaxGapsFirstYear
                            ELSE MaxGapsDefault)])

\* validateDay with the first-year threshold applied to the first two years
validateDay_secondYear(student, dayLessons) ==
    dayViolations(student, dayLessons,
        [h \in Int |-> h > LoadLimit],
        [g \in Int |-> g > (IF student.Year <= 2 THEN MaxGapsFirstYear
                            ELSE MaxGapsDefault)])

validateDay(student, dayLessons) ==
    IF Len(dayLessons) = 0 THEN <<>>
    ELSE LET date == dayLessons[1].Time.Date
             totalHours == calculateLoad(dayLessons)
             load == IF totalHours > LoadLimit
                     THEN <<NewViolation(student.Name, student.Group, student.Year,
                                         date, LoadViolation, totalHours)>>
                     ELSE <<>>
             gapPairs == calculateGaps(dayLessons)
             maxGaps == IF student.Year = 1 THEN MaxGapsFirstYear ELSE MaxGapsDefault
             gaps == IF gapPairs > maxGaps
                     THEN <<NewViolation(student.Name, student.Group, student.Year,
                                         date, GapViolation, gapPairs)>>
                     ELSE <<>>
         IN load \o gaps

\* the inner loop of ValidateSchedule over scheduleByDate, visited in `order`
RECURSIVE validateDays(_, _, _, _)
validateDays(student, scheduleByDate, order, i) ==
    IF i > Len(order) THEN <<>>
    ELSE validateDay(student, scheduleByDate[order[i]])
         \o validateDays(student, scheduleByDate, order, i + 1)

\* every list one student can contribute, one per iteration order of the map
StudentViolations(all, student) ==
    LET scheduleByDate == groupByDate(collectStudentSchedule(all, student))
    IN {validateDays(student, scheduleByDate, order, 1) :
            order \in Orders(DOMAIN scheduleByDate)}

\* every list ValidateSchedule can return for students i..Len
RECURSIVE ValidateScheduleFrom(_, _, _)
ValidateScheduleFrom(sts, all, i) ==
    IF i > Len(sts) THEN {<<>>}
    ELSE {a \o b : a \in StudentViolations(all, sts[i]),
                   b \in ValidateScheduleFrom(sts, all, i + 1)}

ValidateSchedule ==
    /\ vpc = "new"
    /\ violations' \in ValidateScheduleFrom(students, lessons, 1)
    /\ vpc' = "done"
    /\ UNCHANGED <<students, lessons>>
    /\ UNCHANGED notValidator

-----------------------------------------------------------------------------
(* infrastructure: the remote group-schedule fetcher.                       *)

\* strings.Join
RECURSIVE Join(_, _)
Join(strs, sep) ==
    IF Len(strs) = 0 THEN ""
    ELSE IF Len(strs) = 1 THEN strs[1]
         ELSE strs[1] \o sep \o Join(Tail(strs), sep)

\* time.Parse("2006-01-02", s) with the error dropped: the zero time on failure
ParseDate(s) ==
    CASE s = "2025-03-10" -> 1
      [] s = "2025-03-11" -> 2
      [] s = "2025-03-12" -> 3
      [] OTHER -> 0

\* time.Parse("15:04", s) with the error dropped: minutes after midnight
ParseClock(s) ==
    CASE s = "08:30" -> 510
      [] s = "10:00" -> 600
      [] s = "10:10" -> 610
      [] s = "11:40" -> 700
      [] s = "11:50" -> 710
      [] s = "13:20" -> 800
      [] s = "13:40" -> 820
      [] s = "15:10" -> 910
      [] s = "15:20" -> 920
      [] s = "16:50" -> 1010
      [] s = "16:55" -> 1015
      [] s = "18:25" -> 1105
      [] s = "18:30" -> 1110
      [] s = "20:00" -> 1200
      [] OTHER -> 0

\* the fields of LessonData that deduplicateLessons and createLesson read
LessonData(date, num, start, end, disc, type, sub, teacher, audit, group) ==
    [WeekDayDate |-> date, LessonNum |-> num,
     LessonTimeStart |-> start, LessonTimeEnd |-> end,
     DiscName |-> disc, DiscType |-> type, DiscSubgroup |-> sub,
     TeacherName |-> teacher, AuditName |-> audit, GroupName |-> group]

\* "Индивидуальные занятия"
IndividualPlaceholder == "Individualnye zanyatiya"
\* the subgroup tag of a lesson without subgroups
NoSubgroup == "0"

\* fmt.Sprintf("%s [%s]", name, type) when the type is not empty
WithType(name, type) == IF type # "" THEN name \o " [" \o type \o "]" ELSE name

createLesson(data) ==
    LET date == ParseDate(data.WeekDayDate)
        startTime == ParseClock(data.LessonTimeStart)
        endTime == ParseClock(data.LessonTimeEnd)
        discipline == WithType(data.DiscName, data.DiscType)
    IN Lesson(NewLessonTime(date, data.LessonNum, 0, 2, startTime, endTime),
              discipline, data.TeacherName, data.AuditName, data.GroupName, "")

\* mergeLessons joining the instructors with "& "
mergeLessons_tightSeparator(data) ==
    IF Len(data) = 0 THEN LessonData("", 0, "", "", "", "", "", "", "", "")
    ELSE [data[1] EXCEPT
            !.DiscName = Join([i \in 1..Len(data) |->
                                  WithType(data[i].DiscName, data[i].DiscType)], " / "),
            !.TeacherName = Join([i \in 1..Len(data) |-> data[i].TeacherName], "& "),
            !.AuditName = Join([i \in 1..Len(data) |-> data[i].AuditName], " / ")]

mergeLessons(data) ==
    IF Len(data) = 0 THEN LessonData("", 0, "", "", "", "", "", "", "", "")
    ELSE LET first == data[1]
             disciplines == [i \in 1..Len(data) |->
                                WithType(data[i].DiscName, data[i].DiscType)]
             teachers == [i \in 1..Len(data) |-> data[i].TeacherName]
             cabinets == [i \in 1..Len(data) |-> data[i].AuditName]
         IN [first EXCEPT !.DiscName = Join(disciplines, " / "),
                          !.TeacherName = Join(teachers, " & "),
                          !.AuditName = Join(cabinets, " / ")]

lessonKey(data) == [date |-> data.WeekDayDate, lessonNum |-> data.LessonNum]

\* groups: map[lessonKey][]LessonData, the placeholder records skipped
dedupGroups(data) ==
    LET kept == SelectSeq(data, LAMBDA d : d.DiscName # IndividualPlaceholder)
    IN [key \in {lessonKey(kept[i]) : i \in 1..Len(kept)} |->
           SelectSeq(kept, LAMBDA d : lessonKey(d) = key)]

\* dedupGroup that sends every group, also a single plain record, through
\* mergeLessons
dedupGroup_alwaysMerge(group) == createLesson(mergeLessons(group))

\* the lesson emitted for one group of the map
dedupGroup(group) ==
    IF Len(group) = 1 /\ group[1].DiscSubgroup = NoSubgroup
    THEN createLesson(group[1])
    ELSE createLesson(mergeLessons(group))

\* deduplicateLessons keyed by the date alone
deduplicateLessons_byDate(data) ==
    LET kept == SelectSeq(data, LAMBDA d : d.DiscName # IndividualPlaceholder)
        groups == [date \in {kept[i].WeekDayDate : i \in 1..Len(kept)} |->
                      SelectSeq(kept, LAMBDA d : d.WeekDayDate = date)]
    IN {[i \in 1..Len(order) |-> dedupGroup(groups[order[i]])] :
            order \in Orders(DOMAIN groups)}

\* every list deduplicateLessons can return, one per iteration order of groups
deduplicateLessons(data) ==
    LET groups == dedupGroups(data)
    IN {[i \in 1..Len(order) |-> dedupGroup(groups[order[i]])] :
            order \in Orders(DOMAIN groups)}

\* the identifiers the remote service lists for departments and groups
OptionValue(name) ==
    CASE name = "D1" -> "11"
      [] name = "D2" -> "12"
      [] name = "G1" -> "21"
      [] name = "G2" -> "22"
      [] OTHER -> "99"

\* an answer of the service: a transport failure, or a body
\*   kind "options": an option list (steps 1 and 2), name -> value
\*   kind "markup":  a body that starts with "<" where JSON was expected
\*   kind "garbage": a body that is neither markup nor valid JSON
\*   kind "json":    {"LessonList": {...}}, its records in iteration order
HTTPFailure == [kind |-> "failure"]
OptionsBody(names) == [kind |-> "options", options |-> [n \in names |-> OptionValue(n)]]
MarkupBody == [kind |-> "markup"]
GarbageBody == [kind |-> "garbage"]
JSONBody(list) == [kind |-> "json", list |-> list]

\* return nil, fmt.Errorf(...)
Failed(message) == [lessons |-> <<>>, err |-> message]

\* NewGroupScheduleParser
NewGroupScheduleParser(departmentName, groupName, weekStart) ==
    /\ gsp = [departmentName |-> departmentName, groupName |-> groupName,
              weekStart |-> weekStart]
    /\ gpc = "departments"
    /\ requests = <<>>
    /\ responses = <<>>
    /\ departmentID = ""
    /\ groupID = ""
    /\ lessonsData = <<>>
    /\ parsed = [lessons |-> <<>>, err |-> ""]

\* Parse, step 1, continuing with an empty id when the department is not listed
ParseDepartments_noLookupCheck(resp) ==
    /\ gpc = "departments"
    /\ requests' = Append(requests, [step |-> "departments"])
    /\ responses' = Append(responses, resp)
    /\ IF resp.kind = "failure"
       THEN /\ parsed' = Failed("failed to fetch departments")
            /\ gpc' = "done"
            /\ UNCHANGED departmentID
       ELSE /\ departmentID' = IF gsp.departmentName \in DOMAIN resp.options
                               THEN resp.options[gsp.departmentName] ELSE ""
            /\ gpc' = "groups"
            /\ UNCHANGED parsed
    /\ UNCHANGED <<gsp, groupID, lessonsData>>
    /\ UNCHANGED notFetcher

\* Parse, step 1: fetchDepartments and the lookup of the department name
ParseDepartments(resp) ==
    /\ gpc = "departments"
    /\ requests' = Append(requests, [step |-> "departments"])
    /\ responses' = Append(responses, resp)
    /\ IF resp.kind = "failure"
       THEN /\ parsed' = Failed("failed to fetch departments")
            /\ gpc' = "done"
            /\ UNCHANGED departmentID
       ELSE IF gsp.departmentName \notin DOMAIN resp.options
            THEN /\ parsed' = Failed("department not found")
                 /\ gpc' = "done"
                 /\ UNCHANGED departmentID
            ELSE /\ departmentID' = resp.options[gsp.departmentName]
                 /\ gpc' = "groups"
                 /\ UNCHANGED parsed
    /\ UNCHANGED <<gsp, groupID, lessonsData>>
    /\ UNCHANGED notFetcher

\* Parse, step 2: fetchGroups(departmentID) and the lookup of the group name
ParseGroups(resp) ==
    /\ gpc = "groups"
    /\ requests' = Append(requests, [step |-> "groups", FakultetId |-> departmentID])
    /\ responses' = Append(responses, resp)
    /\ IF resp.kind = "failure"
       THEN /\ parsed' = Failed("failed to fetch groups")
            /\ gpc' = "done"
            /\ UNCHANGED groupID
       ELSE IF gsp.groupName \notin DOMAIN resp.options
            THEN /\ parsed' = Failed("group not found")
                 /\ gpc' = "done"
                 /\ UNCHANGED groupID
            ELSE /\ groupID' = resp.options[gsp.groupName]
                 /\ gpc' = "lessons"
                 /\ UNCHANGED parsed
    /\ UNCHANGED <<gsp, departmentID, lessonsData>>
    /\ UNCHANGED notFetcher

\* Parse, step 3: fetchLessons(groupID), then deduplicateLessons
ParseLessons(resp) ==
    /\ gpc = "lessons"
    /\ requests' = Append(requests, [step |-> "lessons", GroupId |-> groupID,
                                     WeekNum |-> gsp.weekStart])
    /\ responses' = Append(responses, resp)
    /\ gpc' = "done"
    /\ IF resp.kind = "json"
       THEN /\ lessonsData' = resp.list
            /\ \E result \in deduplicateLessons(resp.list) :
                  parsed' = [lessons |-> result, err |-> ""]
       ELSE /\ parsed' = Failed("failed to fetch lessons")
            /\ UNCHANGED lessonsData
    /\ UNCHANGED <<gsp, departmentID, groupID>>
    /\ UNCHANGED notFetcher

-----------------------------------------------------------------------------
(* Inputs of the fetcher: what the remote service may answer.               *)

\* two sources of a record's instructor, room, discipline and clock times
RawRecord(date, num, type, sub, v) ==
    IF v = 1
    THEN LessonData(date, num, "08:30", "10:00", "Math", type,
                    IF sub = 0 THEN NoSubgroup ELSE "1",
                    "Petrov A.A.", "K1-101", "G1")
    ELSE LessonData(date, num, "10:10", "11:40", "Physics", type,
                    IF sub = 0 THEN NoSubgroup ELSE "2",
                    "Sidorov B.B.", "K2-202", "G1")

\* two periods of one day in every variation, one record on another day, and
\* one placeholder record
RawRecords ==
    {RawRecord("2025-03-10", num, type, sub, v) :
        num \in {1, 2}, type \in {"", "lek"}, sub \in {0, 1}, v \in {1, 2}}
    \cup {RawRecord("2025-03-11", 1, "", 0, 1)}
    \cup {LessonData("2025-03-10", 1, "08:30", "10:00", IndividualPlaceholder, "",
                     NoSubgroup, "Petrov A.A.", "K1-101", "G1")}

DepartmentAnswers ==
    {HTTPFailure} \cup {OptionsBody(names) : names \in {{}, {"D1"}, {"D1", "D2"}}}

GroupAnswers ==
    {HTTPFailure} \cup {OptionsBody(names) : names \in {{}, {"G2"}, {"G1", "G2"}}}

LessonAnswers ==
    {HTTPFailure, MarkupBody, GarbageBody}
    \cup {JSONBody(list) : list \in SeqsUpTo(RawRecords, MaxRecords)}

InitFetcher ==
    \E dep \in {"D1", "D2"} : NewGroupScheduleParser(dep, "G1", "2025-03-10")

\* Parse reaches a step and the service answers it
AnswerDepartments ==
    gpc = "departments" /\ \E resp \in DepartmentAnswers : ParseDepartments(resp)

AnswerGroups ==
    gpc = "groups" /\ \E resp \in GroupAnswers : ParseGroups(resp)

AnswerLessons ==
    gpc = "lessons" /\ \E resp \in LessonAnswers : ParseLessons(resp)

NextFetcher == AnswerDepartments \/ AnswerGroups \/ AnswerLessons

-----------------------------------------------------------------------------
(* infrastructure: the tabular parser of individual lessons.                *)

\* strings.Fields followed by strings.Join(.., " ") on a cell of tokens:
\* blanks at both ends dropped, runs of blanks collapsed
RECURSIVE CollapseBlanks(_, _)
CollapseBlanks(tokens, atStart) ==
    IF Len(tokens) = 0 THEN <<>>
    ELSE IF Head(tokens) = " "
         THEN LET rest == CollapseBlanks(Tail(tokens), TRUE)
              IN IF atStart \/ Len(rest) = 0 THEN rest
                 ELSE IF Len(Tail(tokens)) > 0 /\ Head(Tail(tokens)) = " " THEN rest
                      ELSE <<" ">> \o rest
         ELSE <<Head(tokens)>> \o CollapseBlanks(Tail(tokens), FALSE)

\* strings.TrimSpace on tokens
RECURSIVE TrimSpace(_)
TrimSpace(tokens) ==
    IF Len(tokens) = 0 THEN <<>>
    ELSE IF Head(tokens) = " " THEN TrimSpace(Tail(tokens))
         ELSE IF tokens[Len(tokens)] = " "
              THEN TrimSpace(SubSeq(tokens, 1, Len(tokens) - 1))
              ELSE tokens

\* strings.Split(.., "/") on tokens: the parts between the "/" tokens
RECURSIVE SplitSlash(_, _)
SplitSlash(tokens, part) ==
    IF Len(tokens) = 0 THEN <<part>>
    ELSE IF Head(tokens) = "/"
         THEN <<part>> \o SplitSlash(Tail(tokens), <<>>)
         ELSE SplitSlash(Tail(tokens), Append(part, Head(tokens)))

\* the string that a sequence of tokens spells
RECURSIVE Text(_)
Text(tokens) == IF Len(tokens) = 0 THEN "" ELSE Head(tokens) \o Text(Tail(tokens))

\* extractStudentNames: [names, err]; the cell "" is an error
extractStudentNames(cell) ==
    IF Len(cell) = 0 THEN [names |-> <<>>, err |-> TRUE]
    ELSE LET studentNameCell == CollapseBlanks(cell, TRUE)
         IN IF \E i \in 1..Len(studentNameCell) : studentNameCell[i] = "/"
            THEN LET names == SplitSlash(studentNameCell, <<>>)
                 IN [names |-> [i \in 1..Len(names) |-> Text(TrimSpace(names[i]))],
                     err |-> FALSE]
            ELSE [names |-> <<Text(studentNameCell), Text(studentNameCell)>>,
                  err |-> FALSE]

\* a discipline cell: the text left when the parenthesised room and the group
\* code are taken out, the digits of the room ("" when there is no room in
\* parentheses) and the group code ("" when there is none); empty = the cell ""
DisciplineCell(text, room, group) == [text |-> text, room |-> room, group |-> group]

EmptyCell(cell) == cell.text = "" /\ cell.room = "" /\ cell.group = ""

\* extractDiscipline: [value, err]
extractDiscipline(cell) ==
    IF EmptyCell(cell) THEN [value |-> "", err |-> TRUE]
    ELSE IF cell.text = "Narodnyi tanets" THEN [value |-> "", err |-> TRUE]
    ELSE [value |-> CASE cell.text \in {"Dir.khor.podg.", "Khor.dir."} -> "Dirizhirovanie"
                      [] cell.text \in {"Muz.instr.ispol.", "Muz.instr.podg."} -> "Muz. Instrument"
                      [] cell.text \in {"Vokal.", "Vokal. ispoln.", "Vokal. podg."} -> "Vokal"
                      [] OTHER -> cell.text,
          err |-> FALSE]

\* extractCabinet: [value, err]
extractCabinet(cell) ==
    IF EmptyCell(cell) \/ cell.room = "" THEN [value |-> "", err |-> TRUE]
    ELSE [value |-> "K3-" \o cell.room, err |-> FALSE]

\* extractGroup: [value, err]; no group code is not an error
extractGroup(cell) ==
    IF EmptyCell(cell) THEN [value |-> "", err |-> TRUE]
    ELSE [value |-> cell.group, err |-> FALSE]

\* extractTeacher on the row "Преподаватель <surname> <initials>": a row
\* is [surname, initials]; a row the pattern does not match gives "Unknown"
extractTeacher(row) ==
    IF row.surname = "" \/ row.initials = "" THEN "Unknown"
    ELSE row.surname \o " " \o row.initials

\* pairTime
pairTime(lessonNumber) ==
    CASE lessonNumber = 1 -> <<"08:30", "10:00">>
      [] lessonNumber = 2 -> <<"10:10", "11:40">>
      [] lessonNumber = 3 -> <<"11:50", "13:20">>
      [] lessonNumber = 4 -> <<"13:40", "15:10">>
      [] lessonNumber = 5 -> <<"15:20", "16:50">>
      [] lessonNumber = 6 -> <<"16:55", "18:25">>
      [] lessonNumber = 7 -> <<"18:30", "20:00">>
      [] OTHER -> <<"", "">>

\* minutes of a day
DayMinutes == 1440

\* parsePairTime: the clock times of the period on the given date
parsePairTime(date, lessonNumber) ==
    LET times == pairTime(lessonNumber)
    IN <<date * DayMinutes + ParseClock(times[1]),
         date * DayMinutes + ParseClock(times[2])>>

\* the records the loop body of Parse creates for the names of one cell,
\* with the group blanked for the named students instead of the unnamed slots
RECURSIVE cellLessons_blankNamed(_, _, _, _, _, _, _, _)
cellLessons_blankNamed(studentNames, index, date, lessonNumber, disciplineName, teacherName, cabinetNumber, groupName) ==
    IF index >= Len(studentNames) THEN <<>>
    ELSE LET studentName == studentNames[index + 1]
             lessonGroup == IF studentName # "" THEN "" ELSE groupName
             times == parsePairTime(date, lessonNumber)
         IN <<Lesson(NewLessonTime(date, lessonNumber, index + 1, 1, times[1], times[2]),
                     disciplineName, teacherName, cabinetNumber, lessonGroup,
                     studentName)>>
            \o cellLessons_blankNamed(studentNames, index + 1, date, lessonNumber,
                                      disciplineName, teacherName, cabinetNumber,
                                      groupName)

\* the records the loop body of Parse creates for the names of one cell
\* (for index, studentName := range studentNames), from position index on
RECURSIVE cellLessons(_, _, _, _, _, _, _, _)
cellLessons(studentNames, index, date, lessonNumber, disciplineName, teacherName, cabinetNumber, groupName) ==
    IF index >= Len(studentNames) THEN <<>>
    ELSE LET studentName == studentNames[index + 1]
             lessonGroup == IF studentName = "" THEN "" ELSE groupName
             hoursStub == 1
             pairHalf == index + 1
             times == parsePairTime(date, lessonNumber)
         IN <<Lesson(NewLessonTime(date, lessonNumber, pairHalf, hoursStub,
                                   times[1], times[2]),
                     disciplineName, teacherName, cabinetNumber, lessonGroup,
                     studentName)>>
            \o cellLessons(studentNames, index + 1, date, lessonNumber,
                           disciplineName, teacherName, cabinetNumber, groupName)

\* sort.Strings order of the instructor names of the model, as Go orders the
\* source strings byte by byte: the Latin "Unknown" before the Cyrillic names
StringRank(name) ==
    CASE name = "" -> 0
      [] name = "Unknown" -> 1
      [] name = "Belov K.S." -> 2
      [] name = "Orlova E.P." -> 3
      [] OTHER -> 4

\* sort.Strings of a set of strings
RECURSIVE SortStrings(_)
SortStrings(strs) ==
    IF strs = {} THEN <<>>
    ELSE LET least == CHOOSE x \in strs : \A y \in strs : StringRank(x) <= StringRank(y)
         IN <<least>> \o SortStrings(strs \ {least})

\* the key of mergeTeachers
teacherKey(lesson) ==
    <<DateString(lesson.Time), lesson.Time.Number, lesson.Time.PairHalf,
      lesson.Discipline, lesson.Cabinet, lesson.Group, lesson.Student>>

\* mergeTeachers with the instructors of a key left in the order of arrival
mergeTeachers_arrivalOrder(recs) ==
    {LET group == SelectSeq(recs, LAMBDA l : teacherKey(l) = key)
     IN IF Len(group) > 1
        THEN [group[1] EXCEPT !.Teacher =
                 Join([i \in 1..Len(group) |-> group[i].Teacher], "& ")]
        ELSE group[1]
     : key \in {teacherKey(recs[i]) : i \in 1..Len(recs)}}

\* mergeTeachers: the merged record of every key.  The code returns them as
\* a list in the iteration order of its map; the records differ pairwise (the
\* key is part of the record), so the list in arbitrary order is this set.
mergeTeachers(recs) ==
    {LET group == SelectSeq(recs, LAMBDA l : teacherKey(l) = key)
         teacherSet == {group[i].Teacher : i \in 1..Len(group)} \ {""}
     IN IF Len(group) > 1
        THEN [group[1] EXCEPT !.Teacher = Join(SortStrings(teacherSet), "& ")]
        ELSE group[1]
     : key \in {teacherKey(recs[i]) : i \in 1..Len(recs)}}

\* the key of joinIndLessons
joinKey(lesson) == <<lesson.Student, DateString(lesson.Time), lesson.Time.Number>>

\* "/" between the two values even when they agree
JoinHalves_always(a, b) == a \o "/" \o b

\* "/" between two values that differ
JoinHalves(a, b) == IF a = b THEN a ELSE a \o "/" \o b

\* joinPair that hands on a record of a third half as it is
joinPair_keepStray(pairMap) ==
    IF 1 \in DOMAIN pairMap \/ 2 \in DOMAIN pairMap
    THEN Lesson(NewLessonTime(0, 0, 0, 0, 0, 0), "", "", "", "", "")
    ELSE pairMap[CHOOSE half \in DOMAIN pairMap : TRUE]

\* joinPair that leaves a lone half unmarked
joinPair_unmarked(pairMap) ==
    IF 1 \in DOMAIN pairMap /\ 2 \in DOMAIN pairMap
    THEN [pairMap[1] EXCEPT
             !.Time.PairHalf = 0,
             !.Time.Hours = 2,
             !.Discipline = JoinHalves(pairMap[1].Discipline, pairMap[2].Discipline),
             !.Teacher = JoinHalves(pairMap[1].Teacher, pairMap[2].Teacher),
             !.Cabinet = JoinHalves(pairMap[1].Cabinet, pairMap[2].Cabinet),
             !.Time.EndTime = pairMap[2].Time.EndTime]
    ELSE IF 1 \in DOMAIN pairMap THEN pairMap[1]
         ELSE IF 2 \in DOMAIN pairMap THEN pairMap[2]
              ELSE Lesson(NewLessonTime(0, 0, 0, 0, 0, 0), "", "", "", "", "")

\* the record joinIndLessons emits for one pairMap (half -> lesson)
joinPair(pairMap) ==
    LET hasFirst == 1 \in DOMAIN pairMap
        hasSecond == 2 \in DOMAIN pairMap
    IN IF hasFirst /\ hasSecond
       THEN LET lesson1 == pairMap[1]
                lesson2 == pairMap[2]
            IN [lesson1 EXCEPT
                   !.Time.PairHalf = 0,
                   !.Time.Hours = 2,
                   !.Discipline = JoinHalves(lesson1.Discipline, lesson2.Discipline),
                   !.Teacher = JoinHalves(lesson1.Teacher, lesson2.Teacher),
                   !.Cabinet = JoinHalves(lesson1.Cabinet, lesson2.Cabinet),
                   !.Time.EndTime = lesson2.Time.EndTime]
       ELSE IF hasFirst
            THEN [pairMap[1] EXCEPT !.Discipline = @ \o "/",
                                    !.Teacher = @ \o "/",
                                    !.Cabinet = @ \o "/"]
            ELSE IF hasSecond
                 THEN [pairMap[2] EXCEPT !.Discipline = "/" \o @,
                                         !.Teacher = "/" \o @,
                                         !.Cabinet = "/" \o @]
                 \* var resultLesson domain.Lesson: the zero Lesson
                 ELSE Lesson(NewLessonTime(0, 0, 0, 0, 0, 0), "", "", "", "", "")

\* every lessonsMap the first loop of joinIndLessons can build from the
\* records of mergeTeachers: lessonsMap[key][half] is the record of that key
\* and half that the loop visits last, and the loop visits the records in the
\* iteration order of mergeTeachers' map, so any of them can be the last
lessonsMaps(recs) ==
    LET keys == {joinKey(l) : l \in recs}
        halves(key) == {l.Time.PairHalf : l \in {r \in recs : joinKey(r) = key}}
        filled == {<<joinKey(l), l.Time.PairHalf>> : l \in recs}
        written == {f \in [filled -> recs] :
                       \A sl \in filled : /\ joinKey(f[sl]) = sl[1]
                                          /\ f[sl].Time.PairHalf = sl[2]}
    IN {[key \in keys |-> [half \in halves(key) |-> f[<<key, half>>]]] : f \in written}

\* joinIndLessons that emits only the groups holding both halves
joinIndLessons_dropLone(recs) ==
    UNION {{[i \in 1..Len(order) |-> joinPair(lessonsMap[order[i]])] :
               order \in Orders({key \in DOMAIN lessonsMap :
                                    {1, 2} \subseteq DOMAIN lessonsMap[key]})} :
           lessonsMap \in lessonsMaps(recs)}

\* every list joinIndLessons can return: one record per key of a lessonsMap,
\* in the iteration order of that map
joinIndLessons(recs) ==
    UNION {{[i \in 1..Len(order) |-> joinPair(lessonsMap[order[i]])] :
               order \in Orders(DOMAIN lessonsMap)} :
           lessonsMap \in lessonsMaps(recs)}

\* Parse: loadFilePaths
LoadFilePaths(found) ==
    /\ tpc = "load"
    /\ IF found
       THEN /\ tpc' = "scan"
            /\ UNCHANGED tparsed
       ELSE /\ tpc' = "done"
            /\ tparsed' = Failed("load file paths")
    /\ UNCHANGED <<allLessons, mergedLessons>>
    /\ UNCHANGED notTabular

\* Parse: one pass of the innermost loops, for the cell of one period in one
\* day column of one instructor's block
ParseCell(teacherRow, date, lessonNumber, disciplineCell, studentCell) ==
    /\ tpc = "scan"
    /\ Len(allLessons) < 2 * MaxCells
    /\ LET teacherName == extractTeacher(teacherRow)
           disciplineName == extractDiscipline(disciplineCell)
           cabinetNumber == extractCabinet(disciplineCell)
           groupName == extractGroup(disciplineCell)
           studentNames == extractStudentNames(studentCell)
       IN IF disciplineName.err \/ cabinetNumber.err \/ groupName.err \/ studentNames.err
          THEN UNCHANGED allLessons
          ELSE allLessons' = allLessons
                   \o cellLessons(studentNames.names, 0, date, lessonNumber,
                                  disciplineName.value, teacherName,
                                  cabinetNumber.value, groupName.value)
    /\ UNCHANGED <<tpc, mergedLessons, tparsed>>
    /\ UNCHANGED notTabular

\* Parse: after the loops
FinishParse ==
    /\ tpc = "scan"
    /\ tpc' = "done"
    /\ IF Len(allLessons) = 0
       THEN /\ tparsed' = Failed("no lessons found")
            /\ UNCHANGED mergedLessons
       ELSE /\ mergedLessons' = mergeTeachers(allLessons)
            /\ \E joinedLessons \in joinIndLessons(mergedLessons') :
                   tparsed' = [lessons |-> joinedLessons, err |-> ""]
    /\ UNCHANGED allLessons
    /\ UNCHANGED notTabular

NewIndividualScheduleParser ==
    /\ tpc = "load"
    /\ allLessons = <<>>
    /\ mergedLessons = {}
    /\ tparsed = [lessons |-> <<>>, err |-> ""]

-----------------------------------------------------------------------------
(* Inputs of the tabular parser: the cells of the spreadsheets.             *)

TeacherRows ==
    {[surname |-> "Orlova", initials |-> "E.P."],
     [surname |-> "Belov", initials |-> "K.S."],
     [surname |-> "", initials |-> ""]}

DisciplineCells ==
    {DisciplineCell("Vokal.", "215", ""),
     DisciplineCell("Vokal.", "215", "MD-21-o"),
     DisciplineCell("Khor.dir.", "216", "MD-21-o"),
     DisciplineCell("Khor.dir.", "", "")}

StudentCells ==
    {<<>>,
     <<"Ivanov">>,
     <<"Ivanov", "/", "Petrova">>,
     <<"Ivanov", " ", "/">>,
     <<"/", "Petrova">>,
     <<"Petrova", "/", "Ivanov">>,
     <<"/", "/", "Petrova">>}

\* one (period, day) cell of an instructor's block
SheetCell(surname, initials, text, room, group, studentCell) ==
    [teacherRow |-> [surname |-> surname, initials |-> initials],
     disciplineCell |-> DisciplineCell(text, room, group),
     studentCell |-> studentCell]

\* the cells that the spreadsheets of the model hold: the same student under
\* two instructors and under an instructor the pattern does not match, cells
\* of two names, of one name with one half empty, of three names, with and
\* without a group code, and cells that the scan skips
SheetCells ==
    {SheetCell("Orlova", "E.P.", "Vokal.", "215", "", <<"Ivanov">>),
     SheetCell("Belov", "K.S.", "Vokal.", "215", "", <<"Ivanov">>),
     SheetCell("", "", "Vokal.", "215", "", <<"Ivanov">>),
     SheetCell("Orlova", "E.P.", "Vokal.", "215", "MD-21-o", <<"Ivanov", "/", "Petrova">>),
     SheetCell("Belov", "K.S.", "Vokal.", "215", "MD-21-o", <<"Ivanov", "/", "Petrova">>),
     SheetCell("Belov", "K.S.", "Khor.dir.", "216", "MD-21-o", <<"Petrova", "/", "Ivanov">>),
     SheetCell("Belov", "K.S.", "Khor.dir.", "216", "MD-21-o", <<"Ivanov", " ", "/">>),
     SheetCell("Orlova", "E.P.", "Khor.dir.", "216", "MD-21-o", <<"/", "Petrova">>),
     SheetCell("Orlova", "E.P.", "Vokal.", "215", "", <<"/", "/", "Petrova">>),
     SheetCell("Orlova", "E.P.", "Khor.dir.", "", "", <<"Ivanov">>),
     SheetCell("Orlova", "E.P.", "Vokal.", "215", "", <<>>)}

InitTabular == NewIndividualScheduleParser

ScanCell ==
    tpc = "scan" /\ \E cell \in SheetCells :
                        /\ cell.teacherRow \in TeacherRows
                        /\ cell.disciplineCell \in DisciplineCells
                        /\ cell.studentCell \in StudentCells
                        /\ ParseCell(cell.teacherRow, 1, 1, cell.disciplineCell,
                                     cell.studentCell)

NextTabular ==
    \/ \E found \in BOOLEAN : LoadFilePaths(found)
    \/ ScanCell
    \/ FinishParse

-----------------------------------------------------------------------------
(* infrastructure: the TTL cache of group lessons.                          *)

\* the time-to-live of an entry, in minutes
TTL == 30

\* Get that treats an entry as expired from its expiry time on
Get_expiredAtExpiry(d, t, key) ==
    IF key \notin DOMAIN d THEN [lessons |-> <<>>, ok |-> FALSE, data |-> d]
    ELSE IF t >= d[key].expiry
         THEN [lessons |-> <<>>, ok |-> FALSE,
               data |-> [w \in DOMAIN d \ {key} |-> d[w]]]
         ELSE [lessons |-> d[key].lessons, ok |-> TRUE, data |-> d]

\* GroupLessonsCache.Get on the map d at time t: what it returns (nil is the
\* empty list) and the map it leaves
Get(d, t, key) ==
    IF key \notin DOMAIN d THEN [lessons |-> <<>>, ok |-> FALSE, data |-> d]
    ELSE IF t > d[key].expiry
         THEN [lessons |-> <<>>, ok |-> FALSE,
               data |-> [w \in DOMAIN d \ {key} |-> d[w]]]
         ELSE [lessons |-> d[key].lessons, ok |-> TRUE, data |-> d]

\* GroupLessonsCache.Set on the map d at time t: the map it leaves
Set(d, t, key, ls) ==
    [w \in DOMAIN d \cup {key} |->
        IF w = key THEN [lessons |-> ls, expiry |-> t + TTL] ELSE d[w]]

NoCall == [key |-> "", lessons |-> <<>>, ok |-> FALSE, at |-> 0]

\* a call of Get, under the mutex of the cache
GetCall(key) ==
    /\ cacheData' = Get(cacheData, now, key).data
    /\ got' = [key |-> key, lessons |-> Get(cacheData, now, key).lessons,
               ok |-> Get(cacheData, now, key).ok, at |-> now]
    /\ UNCHANGED lastSet

\* a call of Set, under the mutex of the cache
SetCall(key, ls) ==
    /\ cacheData' = Set(cacheData, now, key, ls)
    /\ lastSet' = [w \in DOMAIN lastSet \cup {key} |->
                      IF w = key THEN [lessons |-> ls, at |-> now] ELSE lastSet[w]]
    /\ got' = NoCall

\* NewGroupLessonsCache, at the start of the clock
NewGroupLessonsCache ==
    /\ cacheData = <<>>
    /\ now = 0
    /\ lastSet = <<>>
    /\ got = NoCall

CacheGet(key) ==
    /\ GetCall(key)
    /\ UNCHANGED now
    /\ UNCHANGED notCache

CacheSet(key, ls) ==
    /\ SetCall(key, ls)
    /\ UNCHANGED now
    /\ UNCHANGED notCache

\* the clock moves on by d minutes
Tick(d) ==
    /\ now + d <= MaxTime
    /\ now' = now + d
    /\ UNCHANGED <<cacheData, lastSet, got>>
    /\ UNCHANGED notCache

-----------------------------------------------------------------------------
(* usecases and infrastructure: ProcessSchedule and the lessons repository. *)

\* the week of the repository
RepositoryWeek == "W1"

\* ProcessSchedule: the keys of deptSet
distinctDepartments(sts) == {sts[i].Department : i \in 1..Len(sts)}

\* ProcessSchedule: the keys of set
distinctGroups(sts) == {sts[i].Group : i \in 1..Len(sts)}

\* the (department, group) pairs in the order of the loops of GetLessons that
\* pair only a student's own department and group
RECURSIVE fetchPairs_ofStudents(_, _)
fetchPairs_ofStudents(deps, grps) ==
    IF Len(deps) = 0 \/ Len(grps) = 0 THEN <<>>
    ELSE <<<<Head(deps), Head(grps)>>>> \o fetchPairs_ofStudents(Tail(deps), Tail(grps))

\* the (department, group) pairs in the order of the loops of GetLessons
RECURSIVE fetchPairs(_, _)
fetchPairs(deps, grps) ==
    IF Len(deps) = 0 THEN <<>>
    ELSE [j \in 1..Len(grps) |-> <<Head(deps), grps[j]>>] \o fetchPairs(Tail(deps), grps)

NoResult == [lessons |-> <<>>, err |-> ""]

\* go func(dep, grp string): a goroutine that has not run yet
NewTask(pair) ==
    [dep |-> pair[1], grp |-> pair[2], pc |-> "ready", out |-> NoResult,
     attempts |-> 0, logged |-> FALSE]

\* the goroutine after gsp.Parse() has returned out
taskAfterParse(task, out) ==
    IF out.err = ""
    THEN [task EXCEPT !.pc = "group", !.out = out, !.attempts = @ + 1]
    ELSE [task EXCEPT !.pc = "done", !.out = out, !.attempts = @ + 1,
                      !.logged = TRUE]

\* wg.Wait() that lets GetLessons go on whatever the goroutines do
allDone_noWait(ts) == TRUE

\* wg.Wait(): every goroutine has called wg.Done()
allDone(ts) == \A k \in 1..Len(ts) : ts[k].pc = "done"

NotReturned == [lessons |-> <<>>, hit |-> FALSE, done |-> FALSE]

NoValidatingResult == [Violations |-> <<>>, Lessons |-> <<>>, err |-> "", done |-> FALSE]

\* ProcessSchedule's return that reports an error when there are no lessons
ValidatingResult_failEmpty(vs, ls) ==
    [Violations |-> vs, Lessons |-> ls,
     err |-> IF Len(ls) = 0 THEN "no lessons" ELSE "", done |-> TRUE]

\* ProcessSchedule's return: ValidatingResult{..}, nil
ValidatingResult(vs, ls) ==
    [Violations |-> vs, Lessons |-> ls, err |-> "", done |-> TRUE]

\* ProcessSchedule up to NewLessonsRepository(repoDepartments, repoGroups, weekStart)
NewLessonsRepository(sts) ==
    /\ roster = sts
    /\ repoDepartments \in Orders(distinctDepartments(sts))
    /\ repoGroups \in Orders(distinctGroups(sts))
    /\ rlessons = <<>>
    /\ rpc = "idle"
    /\ tasks = <<>>
    /\ groupLessons = <<>>
    /\ individual = NoResult
    /\ held = <<>>
    /\ returned = NotReturned
    /\ calls = 0
    /\ validated = NoValidatingResult
    /\ runs = <<>>

\* GetLessons: the individual parser has returned ind
GetLessonsParse(ind) ==
    /\ rpc = "idle"
    /\ calls < MaxCalls
    /\ held' = rlessons
    /\ individual' = ind
    /\ rlessons' = IF ind.err = "" THEN rlessons \o ind.lessons ELSE rlessons
    /\ tasks' = <<>>
    /\ groupLessons' = <<>>
    /\ returned' = NotReturned
    /\ rpc' = "cache"
    /\ UNCHANGED <<roster, repoDepartments, repoGroups, calls, validated>>
    /\ UNCHANGED cvars
    /\ UNCHANGED notRepository

\* GetLessons: the check of the cache
GetLessonsCache ==
    /\ rpc = "cache"
    /\ GetCall(RepositoryWeek)
    /\ IF Get(cacheData, now, RepositoryWeek).ok
       THEN /\ rlessons' = rlessons \o Get(cacheData, now, RepositoryWeek).lessons
            /\ returned' = [lessons |-> rlessons', hit |-> TRUE, done |-> TRUE]
            /\ rpc' = "idle"
            /\ calls' = calls + 1
       ELSE /\ rpc' = IF Len(fetchPairs(repoDepartments, repoGroups)) = 0 THEN "wait" ELSE "spawn"
            /\ UNCHANGED <<rlessons, returned, calls>>
    /\ UNCHANGED <<roster, repoDepartments, repoGroups, tasks, groupLessons, individual,
                   held, validated>>
    /\ UNCHANGED now
    /\ UNCHANGED notRepository

\* GetLessons: one pass of the loops, wg.Add(1) and go func(department, group)
Launch ==
    /\ rpc = "spawn"
    /\ tasks' = Append(tasks, NewTask(fetchPairs(repoDepartments, repoGroups)[Len(tasks) + 1]))
    /\ rpc' = IF Len(tasks') = Len(fetchPairs(repoDepartments, repoGroups)) THEN "wait" ELSE "spawn"
    /\ UNCHANGED <<roster, repoDepartments, repoGroups, rlessons, groupLessons, individual,
                   held, returned, calls, validated>>
    /\ UNCHANGED cvars
    /\ UNCHANGED notRepository

\* a goroutine: gsp.Parse() has returned out
TaskParse(k, out) ==
    /\ tasks[k].pc = "ready"
    /\ tasks' = [tasks EXCEPT ![k] = taskAfterParse(@, out)]
    /\ UNCHANGED <<roster, repoDepartments, repoGroups, rlessons, rpc, groupLessons,
                   individual, held, returned, calls, validated>>
    /\ UNCHANGED cvars
    /\ UNCHANGED notRepository

\* a goroutine: the append to groupLessons under groupMu
TaskAppendGroup(k) ==
    /\ tasks[k].pc = "group"
    /\ groupLessons' = groupLessons \o tasks[k].out.lessons
    /\ tasks' = [tasks EXCEPT ![k].pc = "repo"]
    /\ UNCHANGED <<roster, repoDepartments, repoGroups, rlessons, rpc, individual, held,
                   returned, calls, validated>>
    /\ UNCHANGED cvars
    /\ UNCHANGED notRepository

\* a goroutine: the append to r.lessons under r.mu, and wg.Done()
TaskAppendRepo(k) ==
    /\ tasks[k].pc = "repo"
    /\ rlessons' = rlessons \o tasks[k].out.lessons
    /\ tasks' = [tasks EXCEPT ![k].pc = "done"]
    /\ UNCHANGED <<roster, repoDepartments, repoGroups, rpc, groupLessons, individual, held,
                   returned, calls, validated>>
    /\ UNCHANGED cvars
    /\ UNCHANGED notRepository

\* GetLessons: after wg.Wait(), the cache is set and r.lessons returned
GetLessonsReturn ==
    /\ rpc = "wait"
    /\ allDone(tasks)
    /\ SetCall(RepositoryWeek, groupLessons)
    /\ returned' = [lessons |-> rlessons, hit |-> FALSE, done |-> TRUE]
    /\ rpc' = "idle"
    /\ calls' = calls + 1
    /\ UNCHANGED <<roster, repoDepartments, repoGroups, rlessons, tasks, groupLessons,
                   individual, held, validated>>
    /\ UNCHANGED now
    /\ UNCHANGED notRepository

\* ProcessSchedule: after its call of GetLessons, the validator and the return
ProcessScheduleReturn ==
    /\ rpc = "idle"
    /\ calls = 1
    /\ ~validated.done
    /\ \E vs \in ValidateScheduleFrom(roster, returned.lessons, 1) :
           validated' = ValidatingResult(vs, returned.lessons)
    /\ runs' = Append(runs, [at |-> IF returned.hit THEN got.at
                                     ELSE lastSet[RepositoryWeek].at,
                              hit |-> returned.hit, fetches |-> Len(tasks)])
    /\ UNCHANGED <<roster, repoDepartments, repoGroups, rlessons, rpc, tasks, groupLessons,
                   individual, held, returned, calls>>
    /\ UNCHANGED cvars
    /\ UNCHANGED notService

\* a later run of ProcessSchedule up to NewLessonsRepository: the students
\* are loaded again and a new repository, with a new cache, is made
ProcessScheduleAgain ==
    /\ rpc = "idle"
    /\ validated.done
    /\ Len(runs) < MaxRuns
    /\ repoDepartments' \in Orders(distinctDepartments(roster))
    /\ repoGroups' \in Orders(distinctGroups(roster))
    /\ rlessons' = <<>>
    /\ tasks' = <<>>
    /\ groupLessons' = <<>>
    /\ individual' = NoResult
    /\ held' = <<>>
    /\ returned' = NotReturned
    /\ calls' = 0
    /\ validated' = NoValidatingResult
    /\ cacheData' = <<>>
    /\ lastSet' = <<>>
    /\ got' = NoCall
    /\ UNCHANGED <<roster, rpc, runs, now>>
    /\ UNCHANGED notService

-----------------------------------------------------------------------------
(* Inputs of the cache and of the repository.                               *)

\* a group lesson as the remote fetcher returns it
GroupLesson(dep, grp) ==
    Lesson(NewLessonTime(1, 1, 0, 2, 510, 600), dep, "Petrov A.A.", "K1-101", grp, "")

\* an individual lesson as the tabular parser returns it
IndividualLesson ==
    Lesson(NewLessonTime(1, 2, 0, 2, 2050, 2140), "Vokal", "Orlova E.P.", "K3-215", "", "A")

CacheKeys == {"W1", "W2"}

CacheLists == {<<>>, <<GroupLesson("D1", "G1")>>, <<GroupLesson("D2", "G2")>>}

\* the steps of the clock: up to the expiry of an entry set now, and past it
TickSteps == {TTL, TTL + 1}

InitCache == NewGroupLessonsCache

NextCache ==
    \/ \E key \in CacheKeys : CacheGet(key)
    \/ \E key \in CacheKeys, ls \in CacheLists : CacheSet(key, ls)
    \/ \E d \in TickSteps : Tick(d)

\* what the individual parser can return
TabularResults == {Failed("no lessons found"), [lessons |-> <<IndividualLesson>>, err |-> ""]}

\* the groups the remote service lists, each under its department
RemoteCatalogue == {<<"D1", "G1">>, <<"D2", "G2">>}

\* what the remote fetcher can return for a pair: a failure, or the lessons
\* of the group when the service lists the group under the department
FetchResults(dep, grp) ==
    {Failed("fetch failed")}
    \cup {[lessons |-> <<GroupLesson(dep, grp)>>, err |-> ""] :
             pair \in {<<dep, grp>>} \cap RemoteCatalogue}

\* no student, one student, and two students of two departments and groups
RepositoryRosters ==
    {<<>>,
     <<Student("A", "G1", "D1", 1)>>,
     <<Student("A", "G1", "D1", 1), Student("B", "G2", "D2", 2)>>}

InitRepository == \E sts \in RepositoryRosters : NewLessonsRepository(sts)

GetLessonsStart == \E ind \in TabularResults : GetLessonsParse(ind)

\* the steps of the goroutines, in any interleaving
FetchReturns ==
    \E k \in 1..Len(tasks) :
        \E out \in FetchResults(tasks[k].dep, tasks[k].grp) : TaskParse(k, out)

AppendsToGroupLessons == \E k \in 1..Len(tasks) : TaskAppendGroup(k)

AppendsToLessons == \E k \in 1..Len(tasks) : TaskAppendRepo(k)

\* time passes between the calls of GetLessons
Wait == rpc = "idle" /\ \E d \in TickSteps : Tick(d)

\* ProcessSchedule's one call of GetLessons
ServiceGetLessons == calls = 0 /\ GetLessonsStart

NextService ==
    \/ ServiceGetLessons
    \/ GetLessonsCache
    \/ Launch
    \/ FetchReturns
    \/ AppendsToGroupLessons
    \/ AppendsToLessons
    \/ GetLessonsReturn
    \/ ProcessScheduleReturn
    \/ ProcessScheduleAgain
    \/ Wait

NextRepository ==
    \/ GetLessonsStart
    \/ GetLessonsCache
    \/ Launch
    \/ FetchReturns
    \/ AppendsToGroupLessons
    \/ AppendsToLessons
    \/ GetLessonsReturn
    \/ ProcessScheduleReturn
    \/ Wait

-----------------------------------------------------------------------------
(* infrastructure: the roster store, a YAML file that holds the list of     *)
(* students.  The file is readable and writable: os.ReadFile,               *)
(* yaml.Unmarshal, yaml.Marshal and os.WriteFile succeed, and the list that *)
(* loadStudentsUnsafe reads is the list that saveStudentsUnsafe wrote.      *)

\* domain.Student{}
NoStudent == Student("", "", "", 0)

\* what a method of the store leaves and returns: the list in the file, the
\* student returned (GetStudent) and the error, "" for nil
StoreResult(sts, student, err) == [students |-> sts, student |-> student, err |-> err]

\* the position at which the loops `for i, s := range students` stop: the
\* first student named name, 0 when the loop runs to its end
IndexOfName(sts, name) ==
    IF \E i \in 1..Len(sts) : sts[i].Name = name
    THEN CHOOSE i \in 1..Len(sts) :
             sts[i].Name = name /\ \A j \in 1..(i - 1) : sts[j].Name # name
    ELSE 0

\* AddStudent that replaces a student of the same name instead of refusing
AddStudent_overwrite(sts, student) ==
    IF IndexOfName(sts, student.Name) # 0
    THEN StoreResult([sts EXCEPT ![IndexOfName(sts, student.Name)] = student], NoStudent, "")
    ELSE StoreResult(Append(sts, student), NoStudent, "")

AddStudent(sts, student) ==
    IF IndexOfName(sts, student.Name) # 0
    THEN StoreResult(sts, NoStudent, "student already exists")
    ELSE StoreResult(Append(sts, student), NoStudent, "")

GetStudent(sts, name) ==
    IF IndexOfName(sts, name) # 0
    THEN StoreResult(sts, sts[IndexOfName(sts, name)], "")
    ELSE StoreResult(sts, NoStudent, "student not found")

UpdateStudent(sts, name, updated) ==
    IF IndexOfName(sts, name) # 0
    THEN StoreResult([sts EXCEPT ![IndexOfName(sts, name)] = updated], NoStudent, "")
    ELSE StoreResult(sts, NoStudent, "student not found")

\* DeleteStudent that reports success and leaves the file as it was
DeleteStudent_keeps(sts, name) ==
    IF IndexOfName(sts, name) # 0
    THEN StoreResult(sts, NoStudent, "")
    ELSE StoreResult(sts, NoStudent, "student not found")

DeleteStudent(sts, name) ==
    IF IndexOfName(sts, name) # 0
    THEN StoreResult(SubSeq(sts, 1, IndexOfName(sts, name) - 1)
                     \o SubSeq(sts, IndexOfName(sts, name) + 1, Len(sts)),
                     NoStudent, "")
    ELSE StoreResult(sts, NoStudent, "student not found")

\* one call of a method of the store, under r.mutex: res is what it leaves
\* and returns
StoreCall(op, name, student, res) ==
    /\ Len(storeLog) < MaxOps
    /\ yaml' = res.students
    /\ storeLog' = Append(storeLog, [op |-> op, name |-> name, student |-> student,
                                     before |-> yaml, err |-> res.err,
                                     found |-> res.student])
    /\ UNCHANGED notStore

CallAddStudent(student) ==
    StoreCall("AddStudent", student.Name, student, AddStudent(yaml, student))

CallGetStudent(name) ==
    StoreCall("GetStudent", name, NoStudent, GetStudent(yaml, name))

CallUpdateStudent(name, updated) ==
    StoreCall("UpdateStudent", name, updated, UpdateStudent(yaml, name, updated))

CallDeleteStudent(name) ==
    StoreCall("DeleteStudent", name, NoStudent, DeleteStudent(yaml, name))

\* NewYAMLStudentRepository("students.yaml") over a file that holds sts
NewYAMLStudentRepository(sts) ==
    /\ yaml = sts
    /\ storeLog = <<>>

-----------------------------------------------------------------------------
(* Inputs of the roster store.                                              *)

StoreNames == {"A", "B"}

\* the students that are added
NewStudents == {Student("A", "G1", "D1", 1), Student("B", "G1", "D1", 1)}

\* the records that updates carry
UpdatedStudents == {Student("A", "G2", "D2", 2), Student("B", "G2", "D2", 2)}

\* files in which no two students share a name
StoreFiles ==
    {<<>>,
     <<Student("B", "G1", "D1", 3)>>,
     <<Student("A", "G1", "D1", 3), Student("B", "G1", "D1", 3)>>}

InitStore == \E sts \in StoreFiles : NewYAMLStudentRepository(sts)

Adds == \E student \in NewStudents : CallAddStudent(student)

Gets == \E name \in StoreNames : CallGetStudent(name)

Updates == \E name \in StoreNames, updated \in UpdatedStudents : CallUpdateStudent(name, updated)

Deletes == \E name \in StoreNames : CallDeleteStudent(name)

NextStore == Adds \/ Gets \/ Updates \/ Deletes

-----------------------------------------------------------------------------
(* web: the server's schedule check, handleCheck and handleStatus.          *)

\* the fields of Server that s.mu guards
ServerState(processing, ready, vs, ls) ==
    [isProcessing |-> processing, reportReady |-> ready, violations |-> vs, lessons |-> ls]

\* a body that json.Decode rejects
Malformed == [decoded |-> FALSE, WeekStart |-> ""]

\* CheckRequest{WeekStart: week}
CheckRequest(week) == [decoded |-> TRUE, WeekStart |-> week]

\* what handleCheck decides: the status of its answer, whether it starts the
\* goroutine, and the fields of the server when it releases s.mu
CheckOutcome(status, start, srv) == [status |-> status, start |-> start, srv |-> srv]

\* handleCheck without the test of isProcessing
handleCheck_noGuard(srv, method, body) ==
    IF method # "POST" THEN CheckOutcome(405, FALSE, srv)
    ELSE IF ~body.decoded THEN CheckOutcome(400, FALSE, srv)
    ELSE IF body.WeekStart = "" THEN CheckOutcome(400, FALSE, srv)
    ELSE CheckOutcome(200, TRUE, [srv EXCEPT !.isProcessing = TRUE, !.reportReady = FALSE])

\* handleCheck that leaves reportReady as it was
handleCheck_keepReady(srv, method, body) ==
    IF method # "POST" THEN CheckOutcome(405, FALSE, srv)
    ELSE IF ~body.decoded THEN CheckOutcome(400, FALSE, srv)
    ELSE IF body.WeekStart = "" THEN CheckOutcome(400, FALSE, srv)
    ELSE IF srv.isProcessing THEN CheckOutcome(429, FALSE, srv)
    ELSE CheckOutcome(200, TRUE, [srv EXCEPT !.isProcessing = TRUE])

handleCheck(srv, method, body) ==
    IF method # "POST" THEN CheckOutcome(405, FALSE, srv)
    ELSE IF ~body.decoded THEN CheckOutcome(400, FALSE, srv)
    ELSE IF body.WeekStart = "" THEN CheckOutcome(400, FALSE, srv)
    ELSE IF srv.isProcessing THEN CheckOutcome(429, FALSE, srv)
    ELSE CheckOutcome(200, TRUE, [srv EXCEPT !.isProcessing = TRUE, !.reportReady = FALSE])

\* the goroutine of handleCheck after ProcessSchedule has returned result:
\* the fields of the server when it releases s.mu
afterProcessSchedule(srv, result) ==
    IF result.err # ""
    THEN [srv EXCEPT !.isProcessing = FALSE]
    ELSE ServerState(FALSE, TRUE, result.Violations, result.Lessons)

\* the fields of the server now
Server == ServerState(isProcessing, reportReady, serverViolations, serverLessons)

\* the answer to a request: njobs is the number of goroutines started when
\* the answer was decided (history)
CheckReply(method, body, status) ==
    [path |-> "/check", method |-> method, body |-> body, status |-> status,
     njobs |-> Len(jobs), IsProcessing |-> FALSE, ReportReady |-> FALSE,
     Report |-> <<>>]

StatusReply(status, srv) ==
    [path |-> "/status", method |-> "GET", body |-> Malformed, status |-> status,
     njobs |-> Len(jobs), IsProcessing |-> srv.isProcessing,
     ReportReady |-> srv.reportReady,
     Report |-> IF srv.reportReady THEN <<srv.violations, srv.lessons>> ELSE <<>>]

\* NewServer(studentRepo)
NewServer ==
    /\ isProcessing = FALSE
    /\ reportReady = FALSE
    /\ serverViolations = <<>>
    /\ serverLessons = <<>>
    /\ jobs = <<>>
    /\ replies = <<>>

\* one request to /check: the tests, the critical section, go func() and
\* the answer
HandleCheck(method, body) ==
    /\ Len(replies) < MaxRequests
    /\ LET out == handleCheck(Server, method, body)
       IN /\ isProcessing' = out.srv.isProcessing
          /\ reportReady' = out.srv.reportReady
          /\ serverViolations' = out.srv.violations
          /\ serverLessons' = out.srv.lessons
          /\ jobs' = IF out.start
                     THEN Append(jobs, [week |-> body.WeekStart, pc |-> "running",
                                        result |-> NoValidatingResult])
                     ELSE jobs
          /\ replies' = Append(replies, CheckReply(method, body, out.status))
    /\ UNCHANGED notServer

\* the goroutine k: service.ProcessSchedule(reqData.WeekStart) has returned
JobReturns(k, result) ==
    /\ jobs[k].pc = "running"
    /\ jobs' = [jobs EXCEPT ![k].pc = "returned", ![k].result = result]
    /\ UNCHANGED <<isProcessing, reportReady, serverViolations, serverLessons, replies>>
    /\ UNCHANGED notServer

\* the goroutine k: its critical section
JobFinish(k) ==
    /\ k \in DOMAIN jobs
    /\ jobs[k].pc = "returned"
    /\ LET srv == afterProcessSchedule(Server, jobs[k].result)
       IN /\ isProcessing' = srv.isProcessing
          /\ reportReady' = srv.reportReady
          /\ serverViolations' = srv.violations
          /\ serverLessons' = srv.lessons
    /\ jobs' = [jobs EXCEPT ![k].pc = "done"]
    /\ UNCHANGED replies
    /\ UNCHANGED notServer

\* one request to /status; rendered is whether RenderViolations succeeds
HandleStatus(rendered) ==
    /\ Len(replies) < MaxRequests
    /\ replies' = Append(replies,
           IF reportReady /\ ~rendered
           THEN StatusReply(500, ServerState(FALSE, FALSE, <<>>, <<>>))
           ELSE StatusReply(200, Server))
    /\ UNCHANGED <<isProcessing, reportReady, serverViolations, serverLessons, jobs>>
    /\ UNCHANGED notServer

-----------------------------------------------------------------------------
(* Inputs of the server.                                                    *)

\* the requests to /check: a GET, a body that is not JSON, an empty week,
\* and two weeks
CheckRequests ==
    {<<"GET", CheckRequest("W1")>>, <<"POST", Malformed>>, <<"POST", CheckRequest("")>>,
     <<"POST", CheckRequest("W1")>>, <<"POST", CheckRequest("W2")>>}

\* the day on which the week begins
WeekDay(week) == IF week = "W1" THEN 1 ELSE 2

\* what ProcessSchedule can return for a week: nothing found, or a lesson of
\* the week and a violation on its day
ScheduleResults(week) ==
    {ValidatingResult(<<>>, <<>>),
     ValidatingResult(
         <<NewViolation("A", "G1", 1, WeekDay(week), LoadViolation, 12)>>,
         <<Lesson(NewLessonTime(WeekDay(week), 1, 0, 2, 510, 600), "Disc", "Teacher",
                  "K3-10", "G1", "")>>)}

InitServer == NewServer

Checks == \E request \in CheckRequests : HandleCheck(request[1], request[2])

ProcessScheduleReturns ==
    \E k \in 1..Len(jobs) : \E result \in ScheduleResults(jobs[k].week) : JobReturns(k, result)

Finishes == \E k \in 1..MaxRequests : JobFinish(k)

Statuses == \E rendered \in BOOLEAN : HandleStatus(rendered)

NextServer == Checks \/ ProcessScheduleReturns \/ Finishes \/ Statuses

-----------------------------------------------------------------------------
(* Inputs of the detector.                                                  *)

Rosters ==
    {<<Student("A", "G1", "D1", 1), Student("B", "G1", "D1", 2)>>,
     <<Student("A", "G1", "D1", 3), Student("B", "G2", "D2", 1)>>}

\* a lesson as ingestion produces it: a full period lasts 2 hour-units, a half 1
InputLesson(day, number, pairHalf, group, student) ==
    Lesson(NewLessonTime(day, number, pairHalf, IF pairHalf = 0 THEN 2 ELSE 1, 0, 0),
           "Disc", "Teacher", "K3-10", group, student)

\* load scenarios: group lessons of G1 on two days, individual lessons of A
LoadInputs ==
    {InputLesson(1, 1, 0, "G1", ""), InputLesson(2, 1, 0, "G1", ""),
     InputLesson(1, 2, 0, "", "A"), InputLesson(1, 2, 1, "", "A")}

\* gap scenarios: every period and half for A on day 1, plus group lessons in
\* the first and the last period and a lesson on another day
GapInputs ==
    {InputLesson(1, n, h, "", "A") : n \in 1..MaxNumber, h \in 0..2}
    \cup {InputLesson(1, 1, 0, "G1", ""), InputLesson(1, MaxNumber, 0, "G1", ""),
          InputLesson(2, MaxNumber, 0, "", "A")}

\* collection scenarios: every combination of group and student fields
BindInputs ==
    {InputLesson(1, 1, 0, g, s) : g \in {"", "G1", "G2"}, s \in {"", "A", "B"}}

LessonLists ==
    SeqsUpTo(LoadInputs, MaxLoadLessons)
    \cup SeqsUpTo(GapInputs, MaxGapLessons)
    \cup SeqsUpTo(BindInputs, MaxBindLessons)

\* NewValidator(students, lessons)
InitValidator ==
    /\ students \in Rosters
    /\ lessons \in LessonLists
    /\ violations = <<>>
    /\ vpc = "new"

NextValidator == ValidateSchedule

\* order scenarios: A's first and fourth period on day 1, and on day 2 a
\* group lesson of G1 in the first period and the second half of A's fourth
\* period (free half-periods in between on both days)
OrderInputs ==
    {InputLesson(1, 1, 0, "", "A"), InputLesson(1, 4, 0, "", "A"),
     InputLesson(2, 1, 0, "G1", ""), InputLesson(2, 4, 2, "", "A")}

\* NewValidator(students, lessons) over the order scenarios
InitOrder ==
    /\ students \in Rosters
    /\ lessons \in SeqsUpTo(OrderInputs, MaxOrderLessons)
    /\ violations = <<>>
    /\ vpc = "new"

-----------------------------------------------------------------------------
(* Specifications: one per component, the other components at rest.         *)

\* a validator that is given nothing and is never run
IdleValidator ==
    /\ students = <<>>
    /\ lessons = <<>>
    /\ violations = <<>>
    /\ vpc = "new"

\* a fetcher that is never run
IdleFetcher == NewGroupScheduleParser("D1", "G1", "")

\* a tabular parser that is never run
IdleTabular == NewIndividualScheduleParser

\* a cache that is never called
IdleCache == NewGroupLessonsCache

\* a repository that is never called
IdleRepository == NewLessonsRepository(<<>>)

\* a roster store that is never called
IdleStore == NewYAMLStudentRepository(<<>>)

\* a server that receives no request
IdleServer == NewServer

SpecValidatorInit ==
    /\ IdleFetcher /\ IdleTabular /\ IdleCache /\ IdleRepository /\ IdleStore /\ IdleServer
    /\ InitValidator

SpecValidator == SpecValidatorInit /\ [][NextValidator]_vars

SpecOrderInit ==
    /\ IdleFetcher /\ IdleTabular /\ IdleCache /\ IdleRepository /\ IdleStore /\ IdleServer
    /\ InitOrder

SpecOrder == SpecOrderInit /\ [][NextValidator]_vars

SpecFetcherInit ==
    /\ IdleValidator /\ IdleTabular /\ IdleCache /\ IdleRepository /\ IdleStore /\ IdleServer
    /\ InitFetcher

SpecFetcher == SpecFetcherInit /\ [][NextFetcher]_vars

SpecTabularInit ==
    /\ IdleValidator /\ IdleFetcher /\ IdleCache /\ IdleRepository /\ IdleStore /\ IdleServer
    /\ InitTabular

SpecTabular == SpecTabularInit /\ [][NextTabular]_vars

SpecCacheInit ==
    /\ IdleValidator /\ IdleFetcher /\ IdleTabular /\ IdleRepository /\ IdleStore /\ IdleServer
    /\ InitCache

SpecCache == SpecCacheInit /\ [][NextCache]_vars

SpecRepositoryInit ==
    /\ IdleValidator /\ IdleFetcher /\ IdleTabular /\ IdleStore /\ IdleServer
    /\ InitCache /\ InitRepository

SpecRepository == SpecRepositoryInit /\ [][NextRepository]_vars

\* ProcessSchedule run again and again, each run with its own repository
SpecService == SpecRepositoryInit /\ [][NextService]_vars

SpecStoreInit ==
    /\ IdleValidator /\ IdleFetcher /\ IdleTabular /\ IdleCache /\ IdleRepository /\ IdleServer
    /\ InitStore

SpecStore == SpecStoreInit /\ [][NextStore]_vars

SpecServerInit ==
    /\ IdleValidator /\ IdleFetcher /\ IdleTabular /\ IdleCache /\ IdleRepository /\ IdleStore
    /\ InitServer

SpecServer == SpecServerInit /\ [][NextServer]_vars

\* a goroutine that has returned from ProcessSchedule gets s.mu: every
\* holder of s.mu releases it after a bounded number of steps
SpecServerLive == SpecServer /\ \A k \in 1..MaxRequests : WF_vars(JobFinish(k))

-----------------------------------------------------------------------------
(* The detector's rules, stated without the detector's own operators.       *)

\* the binding of a lesson to a student
Belongs(lesson, student) ==
    \/ lesson.Student # "" /\ lesson.Student = student.Name
    \/ lesson.Student = "" /\ lesson.Group = student.Group

\* positions in `lessons` of the student's lessons on one day
DayIdx(student, day) ==
    {i \in 1..Len(lessons) :
        Belongs(lessons[i], student) /\ lessons[i].Time.Date = day}

ScheduleDays(student) ==
    {lessons[i].Time.Date : i \in {j \in 1..Len(lessons) : Belongs(lessons[j], student)}}

RECURSIVE HoursOf(_)
HoursOf(idx) ==
    IF idx = {} THEN 0
    ELSE LET i == CHOOSE j \in idx : TRUE
         IN lessons[i].Time.Hours + HoursOf(idx \ {i})

\* the half-period slots a lesson occupies
SlotsOf(lesson) ==
    LET p == lesson.Time.Number
        h == lesson.Time.PairHalf
    IN IF h = 0 THEN {(p - 1) * 2, (p - 1) * 2 + 1} ELSE {(p - 1) * 2 + (h - 1)}

\* free slots strictly between the lowest and the highest occupied slot
FreeSlotsBetween(occupied) ==
    {s \in 0..(2 * MaxNumber + 2) :
        /\ s \notin occupied
        /\ \E a \in occupied : a < s
        /\ \E b \in occupied : b > s}

DayGaps(student, day) ==
    Cardinality(FreeSlotsBetween(UNION {SlotsOf(lessons[i]) : i \in DayIdx(student, day)}))

ViolationsOf(student, day, type) ==
    {j \in 1..Len(violations) :
        /\ violations[j].StudentName = student.Name
        /\ violations[j].Date = day
        /\ violations[j].Type = type}

Roster == {students[k] : k \in 1..Len(students)}

\* C1: after ValidateSchedule, for every student S of the roster and every
\* date D on which S has a lesson, a load violation for (S, D) is in the result
\* if and only if the hours of S's lessons on D sum to more than 10, and its
\* Hours field is that sum.
C1_LoadRule ==
    vpc = "done" =>
        \A s \in Roster : \A d \in ScheduleDays(s) :
            LET sum == HoursOf(DayIdx(s, d))
                vs == ViolationsOf(s, d, LoadViolation)
            IN /\ (vs # {}) <=> (sum > 10)
               /\ \A j \in vs : violations[j].Hours = sum

\* one student at 11 hours with a violation of 11, another at exactly 10
\* hours on the same day with none
C1_Witness ==
    /\ vpc = "done"
    /\ \E s \in Roster : \E d \in ScheduleDays(s) :
          /\ HoursOf(DayIdx(s, d)) = 11
          /\ \E j \in ViolationsOf(s, d, LoadViolation) : violations[j].Hours = 11
    /\ \E s \in Roster : \E d \in ScheduleDays(s) :
          /\ HoursOf(DayIdx(s, d)) = 10
          /\ ViolationsOf(s, d, LoadViolation) = {}

\* C2: after ValidateSchedule, for every student S and every date D of S's
\* schedule, a gap violation for (S, D) is in the result if and only if the
\* day's gap count exceeds 2 (S.Year = 1) or 4 (any other year), and its
\* magnitude is the gap count.
C2_GapRule ==
    vpc = "done" =>
        \A s \in Roster : \A d \in ScheduleDays(s) :
            LET gaps == DayGaps(s, d)
                vs == ViolationsOf(s, d, GapViolation)
            IN /\ (vs # {}) <=> (gaps > (IF s.Year = 1 THEN 2 ELSE 4))
               /\ \A j \in vs : violations[j].Hours = gaps

\* a first-year student with 3 gaps and a violation of 3, and a student of
\* another year with exactly 4 gaps and none
C2_Witness ==
    /\ vpc = "done"
    /\ \E s \in Roster : \E d \in ScheduleDays(s) :
          /\ s.Year = 1 /\ DayGaps(s, d) = 3
          /\ \E j \in ViolationsOf(s, d, GapViolation) : violations[j].Hours = 3
    /\ \E s \in Roster : \E d \in ScheduleDays(s) :
          /\ s.Year # 1 /\ DayGaps(s, d) = 4
          /\ ViolationsOf(s, d, GapViolation) = {}

\* the lessons of one day, in input order
DayLessons(day) == SelectSeq(lessons, LAMBDA l : l.Time.Date = day)

\* C3: for a non-empty list of one day's lessons with halves in {0,1,2},
\* calculateGaps is the number of unoccupied slots strictly between the lowest
\* and the highest occupied slot (a full period occupies two slots, a half
\* one; a slot occupied twice counts once), and it is never negative.
C3_GapCount ==
    \A d \in {lessons[i].Time.Date : i \in 1..Len(lessons)} :
        LET dl == DayLessons(d)
            occupied == UNION {SlotsOf(dl[i]) : i \in 1..Len(dl)}
        IN /\ calculateGaps(dl) = Cardinality(FreeSlotsBetween(occupied))
           /\ calculateGaps(dl) >= 0

\* a validated day on which two lessons share a slot and slots are free between
C3_Witness ==
    /\ vpc = "done"
    /\ \E d \in {lessons[i].Time.Date : i \in 1..Len(lessons)} :
          LET dl == DayLessons(d)
          IN /\ \E i, j \in 1..Len(dl) : i # j /\ SlotsOf(dl[i]) \cap SlotsOf(dl[j]) # {}
             /\ calculateGaps(dl) = 5
             /\ \E j \in 1..Len(violations) :
                   violations[j].Type = GapViolation /\ violations[j].Hours = 5

\* C4: the schedule collected for a student is exactly the input lessons that
\* name the student or, naming nobody, carry the student's group, each once
\* and in input order; a lesson naming another student is never in it.
C4_Collect ==
    \A s \in Roster :
        LET schedule == collectStudentSchedule(lessons, s)
        IN /\ schedule = SelectSeq(lessons, LAMBDA l : Belongs(l, s))
           /\ \A i \in 1..Len(schedule) :
                 ~(schedule[i].Student # "" /\ schedule[i].Student # s.Name)

\* a validated input with a lesson of the student's group that names another
\* student, beside a group lesson and an individual lesson of the student
C4_Witness ==
    /\ vpc = "done"
    /\ \E s \in Roster :
          /\ \E i \in 1..Len(lessons) :
                /\ lessons[i].Group = s.Group
                /\ lessons[i].Student \notin {"", s.Name}
          /\ \E i \in 1..Len(lessons) : lessons[i].Student = s.Name
          /\ \E i \in 1..Len(lessons) :
                lessons[i].Student = "" /\ lessons[i].Group = s.Group
          /\ Len(collectStudentSchedule(lessons, s)) = 2


-----------------------------------------------------------------------------
(* The fetcher's contract, stated on what Parse received and returned.      *)

\* Parse returned lessons: lessonsData holds the records it deduplicated
Fetched == gpc = "done" /\ parsed.err = ""

RawKey(d) == <<d.WeekDayDate, d.LessonNum>>

\* the records that are not the placeholder, in arrival order
RealRecords == SelectSeq(lessonsData, LAMBDA d : d.DiscName # "Individualnye zanyatiya")

RealKeys == {RawKey(RealRecords[i]) : i \in 1..Len(RealRecords)}

AllKeys == {RawKey(lessonsData[i]) : i \in 1..Len(lessonsData)}

\* the records of one (date, period), in arrival order
RecordsAt(k) == SelectSeq(RealRecords, LAMBDA d : RawKey(d) = k)

\* the returned lessons of one (date, period)
EmittedAt(k) ==
    {j \in 1..Len(parsed.lessons) :
        /\ DateString(parsed.lessons[j].Time) = k[1]
        /\ parsed.lessons[j].Time.Number = k[2]}

\* a discipline name followed by its type in brackets when it has one
Suffixed(d) == IF d.DiscType = "" THEN d.DiscName ELSE d.DiscName \o " [" \o d.DiscType \o "]"

\* s[1] sep s[2] sep ... s[n], built from the right end
RECURSIVE Separated(_, _)
Separated(strs, sep) ==
    IF Len(strs) = 0 THEN ""
    ELSE IF Len(strs) = 1 THEN strs[1]
         ELSE Separated(SubSeq(strs, 1, Len(strs) - 1), sep) \o sep \o strs[Len(strs)]

Merged(k) == Len(RecordsAt(k)) > 1 \/ RecordsAt(k)[1].DiscSubgroup # "0"

\* C6: for every merged (date, period) group the emitted lesson's discipline
\* is the records' names, each with its own type in brackets, joined by " / ",
\* its room the records' rooms joined by " / ", its date, period and times
\* those of the first record, with half = 0 and duration = 2.
C6_MergedFields ==
    Fetched =>
        \A k \in RealKeys : Merged(k) =>
            \A j \in EmittedAt(k) :
                LET group == RecordsAt(k)
                    l == parsed.lessons[j]
                IN /\ l.Discipline =
                        Separated([i \in 1..Len(group) |-> Suffixed(group[i])], " / ")
                   /\ l.Cabinet =
                        Separated([i \in 1..Len(group) |-> group[i].AuditName], " / ")
                   /\ l.Time.Date = ParseDate(group[1].WeekDayDate)
                   /\ l.Time.Number = group[1].LessonNum
                   /\ l.Time.StartTime = ParseClock(group[1].LessonTimeStart)
                   /\ l.Time.EndTime = ParseClock(group[1].LessonTimeEnd)
                   /\ l.Time.PairHalf = 0
                   /\ l.Time.Hours = 2

\* the two records of the example: same slot, distinct subgroup tags, the two
\* instructors, neither record the placeholder
TwoInstructors ==
    /\ Fetched
    /\ Len(lessonsData) = 2
    /\ Len(RealRecords) = 2
    /\ RawKey(lessonsData[1]) = RawKey(lessonsData[2])
    /\ lessonsData[1].DiscSubgroup # lessonsData[2].DiscSubgroup
    /\ {lessonsData[1].TeacherName, lessonsData[2].TeacherName}
           = {"Petrov A.A.", "Sidorov B.B."}

\* C7 as stated: the merged lesson's instructor is the two names sorted and
\* joined by "& ", whatever order the records arrive in.
C7_SortedInstructors ==
    TwoInstructors =>
        /\ Len(parsed.lessons) = 1
        /\ parsed.lessons[1].Teacher = "Petrov A.A.& Sidorov B.B."

\* C7 amended: the merged lesson's instructor is the two names in the order
\* the records arrived, joined by " & ".
C7_ArrivalOrderInstructors ==
    TwoInstructors =>
        /\ Len(parsed.lessons) = 1
        /\ parsed.lessons[1].Teacher =
              lessonsData[1].TeacherName \o " & " \o lessonsData[2].TeacherName

\* the record of Sidorov arrives first and his name comes first
C7_Witness ==
    /\ TwoInstructors
    /\ lessonsData[1].TeacherName = "Sidorov B.B."
    /\ parsed.lessons[1].Teacher = "Sidorov B.B. & Petrov A.A."

\* C8: a (date, period) group of exactly one record whose subgroup tag is "0"
\* is emitted as one lesson with the record's date, period, times, instructor,
\* room and group, its discipline with the type suffix once, half = 0 and
\* duration = 2.
C8_SingleRecord ==
    Fetched =>
        \A k \in RealKeys :
            (Len(RecordsAt(k)) = 1 /\ RecordsAt(k)[1].DiscSubgroup = "0") =>
                LET r == RecordsAt(k)[1]
                IN /\ Cardinality(EmittedAt(k)) = 1
                   /\ \A j \in EmittedAt(k) :
                         parsed.lessons[j] =
                            [Time |-> [Date |-> ParseDate(r.WeekDayDate),
                                       Number |-> r.LessonNum,
                                       PairHalf |-> 0, Hours |-> 2,
                                       StartTime |-> ParseClock(r.LessonTimeStart),
                                       EndTime |-> ParseClock(r.LessonTimeEnd)],
                             Discipline |-> Suffixed(r),
                             Teacher |-> r.TeacherName,
                             Cabinet |-> r.AuditName,
                             Group |-> r.GroupName,
                             Student |-> ""]

\* a single plain record with a discipline type came back with one suffix
C8_Witness ==
    /\ Fetched
    /\ \E k \in RealKeys :
          /\ Len(RecordsAt(k)) = 1
          /\ RecordsAt(k)[1].DiscSubgroup = "0"
          /\ RecordsAt(k)[1].DiscType = "lek"
          /\ \E j \in EmittedAt(k) : parsed.lessons[j].Discipline = "Math [lek]"

\* a step fails: the transport fails, the configured name is not among the
\* options of step 1 or 2, or the body of step 3 is markup or not JSON
StepFails(k) ==
    LET r == responses[k]
    IN \/ r.kind = "failure"
       \/ k = 1 /\ r.kind = "options" /\ gsp.departmentName \notin DOMAIN r.options
       \/ k = 2 /\ r.kind = "options" /\ gsp.groupName \notin DOMAIN r.options
       \/ k = 3 /\ r.kind \in {"markup", "garbage"}

\* C9: Parse issues its requests in the order departments, groups, lessons;
\* when a step fails Parse has returned an error and no lessons, and the
\* failing request is the last one it issued.
C9_StepsInOrder ==
    /\ Len(requests) <= 3
    /\ Len(responses) = Len(requests)
    /\ \A i \in 1..Len(requests) :
          requests[i].step = <<"departments", "groups", "lessons">>[i]
    /\ \A k \in 1..Len(responses) :
          StepFails(k) =>
              /\ gpc = "done"
              /\ parsed.err # ""
              /\ parsed.lessons = <<>>
              /\ Len(requests) = k

\* the third step answered markup after two good steps
C9_Witness ==
    /\ gpc = "done"
    /\ Len(requests) = 3
    /\ responses[3].kind = "markup"
    /\ parsed.err # ""

\* the records that a step of the scan appends to allLessons
Created == {allLessons'[i] : i \in (Len(allLessons) + 1)..Len(allLessons')}

\* the records of the step come from the discipline cell
FromCell(cell) ==
    /\ ~extractDiscipline(cell).err
    /\ ~extractCabinet(cell).err
    /\ \A l \in Created : /\ l.Discipline = extractDiscipline(cell).value
                          /\ l.Cabinet = extractCabinet(cell).value

\* C10 as stated: every record the tabular parser creates for a non-empty
\* student name has an empty group field, whatever group code the discipline
\* cell contains.
C10_NamedHasNoGroup ==
    \A i \in 1..Len(allLessons) :
        allLessons[i].Student # "" => allLessons[i].Group = ""

\* C10 as the code has it: every record the tabular parser creates for an
\* empty student name has an empty group field, and every record it creates
\* for a non-empty student name carries the group code of the discipline
\* cell (empty only when the cell holds no group code).
C10_UnnamedHasNoGroup ==
    [][Len(allLessons') > Len(allLessons) =>
          \E cell \in DisciplineCells :
              /\ FromCell(cell)
              /\ \A l \in Created :
                     l.Group = IF l.Student = "" THEN "" ELSE extractGroup(cell).value]_vars

\* a cell with a group code has given a record for an empty name, without
\* group, and a record for a named student, with the group code
C10_Witness ==
    \E i, j \in 1..Len(allLessons) :
        /\ j = i + 1
        /\ allLessons[i].Time.PairHalf = 1 /\ allLessons[j].Time.PairHalf = 2
        /\ allLessons[i].Student = "" /\ allLessons[i].Group = ""
        /\ allLessons[j].Student = "Petrova" /\ allLessons[j].Group = "MD-21-o"

\* the tabular parser has returned lessons
Parsed == tpc = "done" /\ tparsed.err = ""

\* C11: every lesson that ingestion produces (the output of the remote
\* fetcher and the output of the tabular parser after mergeTeachers and
\* joinIndLessons) has a half-period value in {0, 1, 2}, for every content
\* of a student-name cell, a cell with more than one "/" included.
C11_HalfInRange ==
    /\ \A i \in 1..Len(tparsed.lessons) : tparsed.lessons[i].Time.PairHalf \in {0, 1, 2}
    /\ \A i \in 1..Len(parsed.lessons) : parsed.lessons[i].Time.PairHalf \in {0, 1, 2}

\* a cell with two "/" has given a record of a third half, and the parser
\* has returned its lessons
C11_Witness ==
    /\ Parsed
    /\ \E i \in 1..Len(allLessons) : allLessons[i].Time.PairHalf = 3
    /\ Len(tparsed.lessons) > 0

\* the records of the input of mergeTeachers with the key k, in arrival order
TeacherGroup(k) == SelectSeq(allLessons, LAMBDA l : teacherKey(l) = k)

\* the keys of the input of mergeTeachers
TeacherKeys == {teacherKey(allLessons[i]) : i \in 1..Len(allLessons)}

\* the distinct non-empty instructor names of the records with the key k
TeacherNames(k) == {TeacherGroup(k)[i].Teacher : i \in 1..Len(TeacherGroup(k))} \ {""}

\* the names in lexicographic order
Sorted(names) ==
    \A i, j \in 1..Len(names) : i < j => StringRank(names[i]) < StringRank(names[j])

\* C12: mergeTeachers emits exactly one record per distinct key (date,
\* period, half, discipline, room, group, student) of its input; for a key
\* with more than one input record the emitted instructor is the distinct
\* non-empty instructor names of those records sorted lexicographically and
\* joined by "& ", and for a key with a single record the record is emitted
\* unchanged.
C12_OnePerTeacherKey ==
    Parsed =>
        /\ {teacherKey(m) : m \in mergedLessons} = TeacherKeys
        /\ \A k \in TeacherKeys :
               /\ Cardinality({m \in mergedLessons : teacherKey(m) = k}) = 1
               /\ \A m \in mergedLessons : teacherKey(m) = k =>
                      IF Len(TeacherGroup(k)) > 1
                      THEN \E names \in Orders(TeacherNames(k)) :
                              /\ Sorted(names)
                              /\ m.Teacher = Separated(names, "& ")
                      ELSE m = TeacherGroup(k)[1]

\* the same half-period of the same student was read under Orlova and then
\* under Belov, and the merged record names Belov first
C12_Witness ==
    /\ Parsed
    /\ \E i, j \in 1..Len(allLessons) :
           /\ i < j
           /\ teacherKey(allLessons[i]) = teacherKey(allLessons[j])
           /\ allLessons[i].Teacher = "Orlova E.P."
           /\ allLessons[j].Teacher = "Belov K.S."
           /\ \E m \in mergedLessons :
                  /\ teacherKey(m) = teacherKey(allLessons[i])
                  /\ m.Teacher = "Belov K.S.& Orlova E.P."

\* the (student, date, period) groups of the input of joinIndLessons
JoinKeys == {joinKey(m) : m \in mergedLessons}

\* the records of the group k with the half-period h
HalfRecords(k, h) == {m \in mergedLessons : joinKey(m) = k /\ m.Time.PairHalf = h}

BothHalves(k) == HalfRecords(k, 1) # {} /\ HalfRecords(k, 2) # {}

OnlyFirst(k) == HalfRecords(k, 1) # {} /\ HalfRecords(k, 2) = {}

OnlySecond(k) == HalfRecords(k, 1) = {} /\ HalfRecords(k, 2) # {}

\* the positions of the output of joinIndLessons that hold the group k
JoinedAt(k) == {i \in 1..Len(tparsed.lessons) : joinKey(tparsed.lessons[i]) = k}

\* C13: joinIndLessons emits exactly one record for every distinct (student,
\* date, period) group of its input: a group that holds both a half=1 and a
\* half=2 record yields one record with half=0, and a group that holds only
\* one of the two halves still yields exactly one record, the marked half.
C13_OnePerJoinKey ==
    Parsed =>
        /\ Len(tparsed.lessons) = Cardinality(JoinKeys)
        /\ \A k \in JoinKeys :
               /\ BothHalves(k) =>
                      /\ Cardinality(JoinedAt(k)) = 1
                      /\ \A i \in JoinedAt(k) : tparsed.lessons[i].Time.PairHalf = 0
               /\ OnlyFirst(k) =>
                      /\ Cardinality(JoinedAt(k)) = 1
                      /\ \A i \in JoinedAt(k) : tparsed.lessons[i].Time.PairHalf = 1
               /\ OnlySecond(k) =>
                      /\ Cardinality(JoinedAt(k)) = 1
                      /\ \A i \in JoinedAt(k) : tparsed.lessons[i].Time.PairHalf = 2

\* the input held a group with both halves and a group with a lone half
C13_Witness ==
    /\ Parsed
    /\ \E k1, k2 \in JoinKeys : BothHalves(k1) /\ (OnlyFirst(k2) \/ OnlySecond(k2))
    /\ Len(tparsed.lessons) >= 2

\* a, "/" and b when a and b differ, the common value when they agree
Slashed(a, b) == IF a = b THEN a ELSE Separated(<<a, b>>, "/")

\* C14: when a (student, date, period) group holds both halves, the record
\* joinIndLessons emits has half=0 and duration=2, takes its start time from
\* the first half and its end time from the second half, and for each of
\* discipline, instructor and room holds the common value when the two
\* halves agree and otherwise the first half's value, "/", and the second
\* half's value.
C14_BothHalvesJoined ==
    Parsed =>
        \A k \in JoinKeys : BothHalves(k) =>
            \A i \in JoinedAt(k) :
                \E lesson1 \in HalfRecords(k, 1), lesson2 \in HalfRecords(k, 2) :
                    LET l == tparsed.lessons[i]
                    IN /\ l.Time.PairHalf = 0
                       /\ l.Time.Hours = 2
                       /\ l.Time.StartTime = lesson1.Time.StartTime
                       /\ l.Time.EndTime = lesson2.Time.EndTime
                       /\ l.Discipline = Slashed(lesson1.Discipline, lesson2.Discipline)
                       /\ l.Teacher = Slashed(lesson1.Teacher, lesson2.Teacher)
                       /\ l.Cabinet = Slashed(lesson1.Cabinet, lesson2.Cabinet)

\* one student had halves that differ in discipline, instructor and room,
\* and another had halves that agree
C14_Witness ==
    /\ Parsed
    /\ \E i, j \in 1..Len(tparsed.lessons) :
           /\ tparsed.lessons[i].Time.PairHalf = 0
           /\ tparsed.lessons[i].Discipline = "Vokal/Dirizhirovanie"
           /\ tparsed.lessons[i].Teacher = "Orlova E.P./Belov K.S."
           /\ tparsed.lessons[i].Cabinet = "K3-215/K3-216"
           /\ tparsed.lessons[j].Time.PairHalf = 0
           /\ tparsed.lessons[j].Discipline = "Dirizhirovanie/Vokal"

\* C15: when a (student, date, period) group holds only one half,
\* joinIndLessons emits that record with its half value (1 or 2), duration
\* and times unchanged and with "/" appended to its discipline, instructor
\* and room when it is the first half, and "/" prepended to them when it is
\* the second half.
C15_LoneHalfMarked ==
    Parsed =>
        \A k \in JoinKeys :
            /\ OnlyFirst(k) =>
                   \A i \in JoinedAt(k) : \E lesson1 \in HalfRecords(k, 1) :
                       tparsed.lessons[i] =
                           [lesson1 EXCEPT !.Discipline = lesson1.Discipline \o "/",
                                           !.Teacher = lesson1.Teacher \o "/",
                                           !.Cabinet = lesson1.Cabinet \o "/"]
            /\ OnlySecond(k) =>
                   \A i \in JoinedAt(k) : \E lesson2 \in HalfRecords(k, 2) :
                       tparsed.lessons[i] =
                           [lesson2 EXCEPT !.Discipline = "/" \o lesson2.Discipline,
                                           !.Teacher = "/" \o lesson2.Teacher,
                                           !.Cabinet = "/" \o lesson2.Cabinet]

\* a lone first half and a lone second half were emitted with their marks
C15_Witness ==
    /\ Parsed
    /\ \E i, j \in 1..Len(tparsed.lessons) :
           /\ tparsed.lessons[i].Time.PairHalf = 1
           /\ tparsed.lessons[i].Time.Hours = 1
           /\ tparsed.lessons[i].Discipline = "Vokal/"
           /\ tparsed.lessons[j].Time.PairHalf = 2
           /\ tparsed.lessons[j].Teacher = "/Orlova E.P."

\* the departments and the groups of the roster
RosterDepartments == {roster[i].Department : i \in 1..Len(roster)}

RosterGroups == {roster[i].Group : i \in 1..Len(roster)}

\* the goroutines launched for the pair (dep, grp)
TasksOf(dep, grp) == {k \in 1..Len(tasks) : tasks[k].dep = dep /\ tasks[k].grp = grp}

\* the launch loop of a call that missed the cache has ended
Launched == rpc = "wait" \/ (rpc = "idle" /\ returned.done /\ ~returned.hit)

\* GetLessons has returned from a call that missed the cache
MissReturned == rpc = "idle" /\ returned.done /\ ~returned.hit

\* GetLessons has returned from a call that hit the cache
HitReturned == rpc = "idle" /\ returned.done /\ returned.hit

\* C16: on a cache miss, GetLessons launches exactly one fetch task for each
\* combination of a distinct department and a distinct group of the roster,
\* all of them concurrently (no launch waits for a task), and attempts each
\* combination once: a failed fetch is logged and never retried.
C16_OneTaskPerPair ==
    /\ Launched =>
           /\ \A dep \in RosterDepartments, grp \in RosterGroups :
                  Cardinality(TasksOf(dep, grp)) = 1
           /\ Len(tasks) = Cardinality(RosterDepartments) * Cardinality(RosterGroups)
    /\ rpc = "spawn" => \A k \in 1..Len(tasks) : Cardinality(TasksOf(tasks[k].dep, tasks[k].grp)) = 1
    /\ \A k \in 1..Len(tasks) :
           /\ tasks[k].attempts <= 1
           /\ tasks[k].pc = "ready" => tasks[k].attempts = 0
           /\ tasks[k].pc = "done" => tasks[k].attempts = 1
           /\ tasks[k].out.err # "" => tasks[k].pc = "done" /\ tasks[k].logged
           /\ tasks[k].out.err = "" => ~tasks[k].logged

\* two departments and two groups: four tasks are in flight at once, one
\* has failed and is logged, the others have not returned yet
C16_Witness ==
    /\ rpc = "wait"
    /\ Cardinality(RosterDepartments) = 2 /\ Cardinality(RosterGroups) = 2
    /\ Len(tasks) = 4
    /\ \E k \in 1..4 :
           /\ tasks[k].pc = "done" /\ tasks[k].logged /\ tasks[k].attempts = 1
           /\ \A j \in (1..4) \ {k} : tasks[j].pc = "ready"

\* the goroutines of the call whose fetch succeeded
Succeeded == {k \in 1..Len(tasks) : tasks[k].attempts = 1 /\ tasks[k].out.err = ""}

\* the lessons of the tasks in the given order, one after the other
RECURSIVE LessonsOf(_)
LessonsOf(order) ==
    IF Len(order) = 0 THEN <<>>
    ELSE tasks[Head(order)].out.lessons \o LessonsOf(Tail(order))

C18_HitReturnsCached ==
    HitReturned =>
        /\ Len(tasks) = 0
        /\ RepositoryWeek \in DOMAIN cacheData
        /\ cacheData[RepositoryWeek].lessons = lastSet[RepositoryWeek].lessons
        /\ cacheData[RepositoryWeek].expiry = lastSet[RepositoryWeek].at + 30
        /\ returned.lessons = individual.lessons \o cacheData[RepositoryWeek].lessons

\* C19: for the TTL cache, after Set(w, L) at time t and any sequence of
\* later Get and Set calls on other keys, Get(w) at time t' returns (L, true)
\* if t' is not after t + 30 minutes and (nil, false) otherwise; an expired
\* entry is removed by the Get that finds it and never earlier, and a key
\* that was never set returns (nil, false).
C19_TimeToLive ==
    /\ [](got.key # "" =>
             IF got.key \in DOMAIN lastSet /\ got.at <= lastSet[got.key].at + 30
             THEN got.ok /\ got.lessons = lastSet[got.key].lessons
             ELSE /\ ~got.ok
                  /\ got.lessons = <<>>
                  /\ got.key \notin DOMAIN cacheData)
    /\ [][\A w \in DOMAIN cacheData :
             w \notin DOMAIN cacheData' =>
                 /\ got'.key = w
                 /\ ~got'.ok
                 /\ got'.at > lastSet[w].at + 30]_vars

\* a Get exactly 30 minutes after the Set of its key finds the lessons, with
\* the other key set in between
C19_Witness ==
    /\ got.key = "W1"
    /\ got.ok
    /\ Len(got.lessons) = 1
    /\ got.at = lastSet["W1"].at + 30
    /\ "W2" \in DOMAIN lastSet
    /\ lastSet["W2"].at = got.at

\* ProcessSchedule has returned, and in its call of GetLessons the tabular
\* parse failed and every remote fetch failed
AllFailed ==
    /\ validated.done
    /\ calls = 1 /\ rpc = "idle"
    /\ individual.err # ""
    /\ \A k \in 1..Len(tasks) : tasks[k].out.err # ""

\* C20: when the tabular parse fails and every remote fetch fails,
\* ProcessSchedule still runs the detector on the empty lesson set and
\* returns a result with zero violations, zero lessons and no error; the
\* detector returns zero violations for an empty lesson set whatever the
\* roster is.
C20_EmptyIngestion ==
    /\ AllFailed =>
           /\ Len(validated.Violations) = 0
           /\ Len(validated.Lessons) = 0
           /\ validated.err = ""
    /\ validated.done /\ Len(validated.Lessons) = 0 => Len(validated.Violations) = 0
    /\ ValidateScheduleFrom(roster, <<>>, 1) = {<<>>}

\* four fetches were tried for a roster of two students and all failed
C20_Witness ==
    /\ AllFailed
    /\ Len(roster) = 2
    /\ Len(tasks) = 4
    /\ \A k \in 1..4 : tasks[k].attempts = 1

-----------------------------------------------------------------------------
(* The roster store's contract, stated on the calls made and the file.      *)

\* the names of the students of a list
NamesOf(sts) == {sts[i].Name : i \in 1..Len(sts)}

\* the file after the call c of the log
FileAfter(c) == IF c < Len(storeLog) THEN storeLog[c + 1].before ELSE yaml

\* C21: in the roster store, AddStudent of a name already present returns an
\* error, and UpdateStudent, DeleteStudent and GetStudent of a name not
\* present return an error; in each of these error cases the stored list of
\* students is left unchanged.
C21_RefusalsChangeNothing ==
    \A c \in 1..Len(storeLog) :
        LET call == storeLog[c]
            present == call.name \in NamesOf(call.before)
        IN /\ (call.op = "AddStudent" /\ present) =>
                  call.err # "" /\ FileAfter(c) = call.before
           /\ (call.op \in {"UpdateStudent", "DeleteStudent", "GetStudent"} /\ ~present) =>
                  call.err # "" /\ FileAfter(c) = call.before

\* an add of a name present and an update, a delete and a get of a name not
\* present have all been refused, over a file that holds a student
C21_Witness ==
    /\ yaml # <<>>
    /\ \A op \in {"AddStudent", "UpdateStudent", "DeleteStudent", "GetStudent"} :
           \E c \in 1..Len(storeLog) :
               /\ storeLog[c].op = op
               /\ storeLog[c].err # ""
               /\ (storeLog[c].name \in NamesOf(storeLog[c].before)) <=> (op = "AddStudent")

\* the calls c .. c+3 of the log are AddStudent of a student named n, not in
\* the file, GetStudent(n), UpdateStudent(n, updated) and DeleteStudent(n)
RoundTripAt(c) ==
    /\ c + 3 <= Len(storeLog)
    /\ storeLog[c].op = "AddStudent"
    /\ storeLog[c].name \notin NamesOf(storeLog[c].before)
    /\ storeLog[c + 1].op = "GetStudent"
    /\ storeLog[c + 1].name = storeLog[c].name
    /\ storeLog[c + 2].op = "UpdateStudent"
    /\ storeLog[c + 2].name = storeLog[c].name
    /\ storeLog[c + 3].op = "DeleteStudent"
    /\ storeLog[c + 3].name = storeLog[c].name

\* C22: for a name n not in the store, after AddStudent(student named n),
\* GetStudent(n), UpdateStudent(n, updated), DeleteStudent(n) the file holds
\* no entry named n, GetStudent(n) reports not-found, and every student that
\* was stored before is unchanged, at its place.  The file is then the file
\* before the add, followed by the updated record when the update gave it
\* another name than n (DeleteStudent(n) then finds nothing to delete).
C22_RoundTrip ==
    \A c \in 1..Len(storeLog) : RoundTripAt(c) =>
        LET n == storeLog[c].name
            before == storeLog[c].before
            updated == storeLog[c + 2].student
            after == FileAfter(c + 3)
        IN /\ n \notin NamesOf(after)
           /\ GetStudent(after, n).err # ""
           /\ SubSeq(after, 1, Len(before)) = before
           /\ storeLog[c + 1].err = "" /\ storeLog[c + 1].found = storeLog[c].student
           /\ after = before \o (IF updated.Name = n THEN <<>> ELSE <<updated>>)

\* the round trip has been made for "A" over a file that holds "B", with an
\* update that keeps the name, and the file is as it was
C22_Witness ==
    /\ RoundTripAt(1)
    /\ storeLog[1].name = "A"
    /\ storeLog[1].before # <<>>
    /\ storeLog[3].student.Name = "A"
    /\ storeLog[3].student # storeLog[1].student
    /\ storeLog[4].err = ""
    /\ yaml = storeLog[1].before

\* C23: student names identify students uniquely: starting from a file in
\* which no two students share a name, after any sequence of AddStudent,
\* UpdateStudent and DeleteStudent calls (an update whose new record carries
\* another name than the one looked up included) no two stored students have
\* the same name.
C23_UniqueNames ==
    \A i, j \in 1..Len(yaml) : i # j => yaml[i].Name # yaml[j].Name

\* the records i and i+1 of allLessons were read from one cell whose
\* student-name cell holds a name and no "/": the name duplicated over the
\* two halves
NoSlashAt(i) ==
    /\ i + 1 <= Len(allLessons)
    /\ allLessons[i].Student # ""
    /\ allLessons[i].Time.PairHalf = 1
    /\ allLessons[i + 1] = [allLessons[i] EXCEPT !.Time.PairHalf = 2]

\* C24: a student-name cell without "/" yields, after both post-processing
\* steps of the tabular parser, exactly one lesson for that student at that
\* (date, period): a full-period lesson with half=0 and duration=2 whose
\* discipline, instructor and room carry no added "/" (the discipline and
\* the room are those of the cell, the instructor is the instructor field
\* of a record mergeTeachers emitted for the slot).
C24_NoSlashCellOneLesson ==
    Parsed =>
        \A i \in 1..Len(allLessons) : NoSlashAt(i) =>
            LET k == joinKey(allLessons[i])
            IN /\ Cardinality(JoinedAt(k)) = 1
               /\ \A j \in JoinedAt(k) :
                      /\ tparsed.lessons[j].Time.PairHalf = 0
                      /\ tparsed.lessons[j].Time.Hours = 2
                      /\ tparsed.lessons[j].Discipline = allLessons[i].Discipline
                      /\ tparsed.lessons[j].Cabinet = allLessons[i].Cabinet
                      /\ tparsed.lessons[j].Teacher \in
                             {m.Teacher : m \in HalfRecords(k, 1) \cup HalfRecords(k, 2)}

\* the values of a field of a joined record in which the value v of a half
\* appears: v alone, v marked as a lone half, and v joined by "/" with a
\* value of the other half
Carrying(v, others) ==
    {v, v \o "/", "/" \o v}
    \cup {Separated(<<v, w>>, "/") : w \in others}
    \cup {Separated(<<w, v>>, "/") : w \in others}

\* the records of the group k that joinIndLessons reads
GroupRecords(k) == HalfRecords(k, 1) \cup HalfRecords(k, 2)

\* C28: joinIndLessons loses no input record: for every input record with
\* half in {1,2}, its discipline, instructor and room appear in the output
\* record of its (student, date, period) group, also when several records
\* that mergeTeachers kept apart (same student, date, period and half,
\* different discipline or room) reach joinIndLessons together.
C28_NoRecordLost ==
    Parsed =>
        \A m \in mergedLessons : m.Time.PairHalf \in {1, 2} =>
            \E j \in JoinedAt(joinKey(m)) :
                LET out == tparsed.lessons[j]
                    group == GroupRecords(joinKey(m))
                IN /\ out.Discipline \in Carrying(m.Discipline, {x.Discipline : x \in group})
                   /\ out.Teacher \in Carrying(m.Teacher, {x.Teacher : x \in group})
                   /\ out.Cabinet \in Carrying(m.Cabinet, {x.Cabinet : x \in group})

-----------------------------------------------------------------------------
(* The detector's result as a multiset.                                     *)

\* the multiset of the elements of a list
BagOfSeq(seq) ==
    [x \in {seq[i] : i \in 1..Len(seq)} |-> Cardinality({i \in 1..Len(seq) : seq[i] = x})]

\* the list with its elements i and j exchanged
Exchanged(seq, i, j) == [seq EXCEPT ![i] = seq[j], ![j] = seq[i]]

\* C25: the multiset of violations ValidateSchedule returns is determined by
\* the students and the multiset of lessons alone: it is the same for every
\* iteration order of the per-date map and for every permutation of the
\* input lesson list (stated for every exchange of two neighbouring lessons
\* of every input list: these exchanges generate the permutations, and
\* every list of the model's inputs is checked with all of them), and it
\* holds at most one violation of each kind per (student, date).
C25_OrderIndependent ==
    vpc = "done" =>
        /\ \A vs \in ValidateScheduleFrom(students, lessons, 1) :
               BagOfSeq(vs) = BagOfSeq(violations)
        /\ \A i \in 1..(Len(lessons) - 1) : lessons[i] # lessons[i + 1] =>
               \A vs \in ValidateScheduleFrom(students, Exchanged(lessons, i, i + 1), 1) :
                   BagOfSeq(vs) = BagOfSeq(violations)
        /\ \A a, b \in 1..Len(violations) : a # b =>
               \/ violations[a].StudentName # violations[b].StudentName
               \/ violations[a].Date # violations[b].Date
               \/ violations[a].Type # violations[b].Type

\* a validated input whose lessons differ, with a student who has a
\* violation on each of two dates, so that the two iteration orders of the
\* map give two different lists
C25_Witness ==
    /\ vpc = "done"
    /\ Len(violations) >= 1
    /\ \E i, j \in 1..Len(lessons) : lessons[i] # lessons[j]
    /\ \E s \in Roster :
           /\ Cardinality(ScheduleDays(s)) = 2
           /\ \E a \in 1..Len(violations) : violations[a].StudentName = s.Name
           /\ Cardinality(ValidateScheduleFrom(students, lessons, 1)) >= 2

-----------------------------------------------------------------------------
(* Repeated runs and repeated calls.                                        *)

\* C26: when ProcessSchedule runs twice for the same week identifier less
\* than 30 minutes apart, the second run takes the group lessons from the
\* cache entry the first run populated and issues no remote fetch.
C26_SecondRunHitsCache ==
    \A a, b \in 1..Len(runs) :
        (a < b /\ runs[b].at - runs[a].at < TTL) => (runs[b].hit /\ runs[b].fetches = 0)

\* what the call of GetLessons that has just returned added to r.lessons:
\* this call's tabular lessons and this call's fetched or cached lessons
AddedByCall == SubSeq(returned.lessons, Len(held) + 1, Len(returned.lessons))

\* C27: GetLessons is repeatable on one LessonsRepositoryImpl: with
\* unchanged sources (the second call reads from its sources the lessons the
\* first call returned), a second call on the same repository returns the
\* same multiset of lessons as the first call, with no lesson of the first
\* call appearing a second time in the result.
C27_Repeatable ==
    (rpc = "idle" /\ calls = 2 /\ returned.done /\ BagOfSeq(AddedByCall) = BagOfSeq(held)) =>
        BagOfSeq(returned.lessons) = BagOfSeq(held)

-----------------------------------------------------------------------------
(* The server's schedule check.                                             *)

\* the goroutines of handleCheck that have not yet left their critical
\* section
InFlight == {k \in 1..Len(jobs) : jobs[k].pc # "done"}

\* an answer to a POST /check whose body names a week
IsCheckOfWeek(reply) ==
    /\ reply.path = "/check"
    /\ reply.method = "POST"
    /\ reply.body.decoded
    /\ reply.body.WeekStart # ""

\* the step answers a POST /check
AnswersPost ==
    /\ Len(replies') = Len(replies) + 1
    /\ replies'[Len(replies')].path = "/check"
    /\ replies'[Len(replies')].method = "POST"

\* C29 as stated: at most one schedule check is in flight, and every POST
\* /check that arrives while isProcessing is true is answered with 429,
\* starts no run and changes no field of the server.
C29_EveryPostGets429 ==
    /\ [](Cardinality(InFlight) <= 1)
    /\ [][(AnswersPost /\ isProcessing) =>
             /\ replies'[Len(replies')].status = 429
             /\ UNCHANGED <<isProcessing, reportReady, serverViolations, serverLessons, jobs>>]_vars

\* C29: at most one schedule check is in flight in the web server at any
\* time (isProcessing is true exactly while one is): under any interleaving
\* of requests, a POST /check that arrives while isProcessing is true is
\* rejected, with status 429 when its body decodes and names a week and
\* with status 400 otherwise; it starts no ProcessSchedule run and changes
\* none of isProcessing, reportReady, violations and lessons.
C29_OneCheckInFlight ==
    /\ [](Cardinality(InFlight) <= 1)
    /\ [](isProcessing <=> InFlight # {})
    /\ [][(AnswersPost /\ isProcessing) =>
             /\ replies'[Len(replies')].status =
                    IF IsCheckOfWeek(replies'[Len(replies')]) THEN 429 ELSE 400
             /\ UNCHANGED <<isProcessing, reportReady, serverViolations, serverLessons, jobs>>]_vars

\* a check was accepted and its run is still in flight; meanwhile a POST
\* without a week was answered with 400 and a check of another week with 429
C29_Witness ==
    /\ Len(jobs) = 1
    /\ jobs[1].pc # "done"
    /\ \E a, b, c \in 1..Len(replies) :
           /\ a < b /\ a < c
           /\ IsCheckOfWeek(replies[a]) /\ replies[a].status = 200
           /\ IsCheckOfWeek(replies[b]) /\ replies[b].status = 429
           /\ replies[b].body.WeekStart # replies[a].body.WeekStart
           /\ replies[c].path = "/check" /\ replies[c].method = "POST"
           /\ ~IsCheckOfWeek(replies[c]) /\ replies[c].status = 400

\* the run k has left its critical section and the server shows its result
Shown(k) ==
    /\ k \in DOMAIN jobs
    /\ jobs[k].pc = "done"
    /\ ~isProcessing
    /\ reportReady
    /\ serverViolations = jobs[k].result.Violations
    /\ serverLessons = jobs[k].result.Lessons

\* C30: in the web server isProcessing and reportReady are never both true;
\* after a POST /check is accepted, reportReady stays false until that
\* run's ProcessSchedule returns, and if it returns then eventually
\* isProcessing is false and reportReady is true with violations and
\* lessons being exactly that run's result, so /status never reports a
\* report of an earlier run as ready while a newer run is in progress (an
\* answer of /status that says ready carries the report of the last run
\* started, and never says processing).
C30_ReportOfThisRun ==
    /\ [](~(isProcessing /\ reportReady))
    /\ [](\A k \in 1..Len(jobs) : jobs[k].pc # "done" => ~reportReady)
    /\ \A k \in 1..MaxRequests :
           (k \in DOMAIN jobs /\ jobs[k].pc = "returned") ~> Shown(k)
    /\ [](\A r \in 1..Len(replies) :
             (replies[r].path = "/status" /\ replies[r].ReportReady) =>
                 /\ ~replies[r].IsProcessing
                 /\ replies[r].njobs >= 1
                 /\ replies[r].Report = <<jobs[replies[r].njobs].result.Violations,
                                          jobs[replies[r].njobs].result.Lessons>>)

\* a first run found nothing; during the second run /status said
\* processing and not ready; the second run found a violation, and the
\* server shows the second run's result
C30_Witness ==
    /\ Len(jobs) = 2
    /\ jobs[1].result.Lessons = <<>>
    /\ jobs[2].result.Lessons # <<>>
    /\ \E r \in 1..Len(replies) :
           /\ replies[r].path = "/status"
           /\ replies[r].njobs = 2
           /\ replies[r].IsProcessing
           /\ ~replies[r].ReportReady
    /\ Shown(2)

=============================================================================
